---- MODULE Spec2Model ----
(***************************************************************************)
(* State-machine model of the PAC-MAN simulation core: the maze oracle     *)
(* (world/board.py), the player and ghost entities (entities/*.py) and the *)
(* orchestrator GameCore (core/game.py).  One action per public operation  *)
(* of GameCore; update() is modelled as the sequential composition of its  *)
(* steps, each a pure operator on a record `g` that stands for `self`.     *)
(*                                                                         *)
(* Python lists are 0-indexed, TLA+ sequences 1-indexed: ghosts[k] models  *)
(* self.ghosts[k-1] (1 Blinky, 2 Pinky, 3 Inky, 4 Clyde) and Cell(<<r,c>>) *)
(* reads ORIGINAL_PACMAN_MAZE[r+1][c+1].                                   *)
(***************************************************************************)
EXTENDS Integers, Sequences, FiniteSets, Bags, TLC

\* ------------------------------------------------------------ world/board.py
DEFAULT_ROWS == 21
DEFAULT_COLS == 19
WALL == 1
PATH == 0
GHOST_HOUSE == 2
GHOST_DOOR == 3

ORIGINAL_PACMAN_MAZE ==
  << <<1,1,1,1,1,1,1,1,1,1,1,1,1,1,1,1,1,1,1>>,
     <<1,0,0,0,0,0,0,0,0,1,0,0,0,0,0,0,0,0,1>>,
     <<1,0,1,1,0,1,1,1,0,1,0,1,1,1,0,1,1,0,1>>,
     <<1,0,1,1,0,1,1,1,0,1,0,1,1,1,0,1,1,0,1>>,
     <<1,0,0,0,0,0,0,0,0,0,0,0,0,0,0,0,0,0,1>>,
     <<1,0,1,1,0,1,0,1,1,1,1,1,0,1,0,1,1,0,1>>,
     <<1,0,0,0,0,1,0,0,0,1,0,0,0,1,0,0,0,0,1>>,
     <<1,1,1,1,0,1,1,1,0,1,0,1,1,1,0,1,1,1,1>>,
     <<1,1,1,1,0,1,0,0,0,0,0,0,0,1,0,1,1,1,1>>,
     <<1,1,1,1,0,1,0,1,3,3,3,1,0,1,0,1,1,1,1>>,
     <<0,0,0,0,0,0,0,1,2,2,2,1,0,0,0,0,0,0,0>>,
     <<1,1,1,1,0,1,0,1,1,1,1,1,0,1,0,1,1,1,1>>,
     <<1,1,1,1,0,1,0,0,0,0,0,0,0,1,0,1,1,1,1>>,
     <<1,1,1,1,0,1,0,1,1,1,1,1,0,1,0,1,1,1,1>>,
     <<1,0,0,0,0,0,0,0,0,1,0,0,0,0,0,0,0,0,1>>,
     <<1,0,1,1,0,1,1,1,0,1,0,1,1,1,0,1,1,0,1>>,
     <<1,0,0,1,0,0,0,0,0,0,0,0,0,0,0,1,0,0,1>>,
     <<1,1,0,1,0,1,0,1,1,1,1,1,0,1,0,1,0,1,1>>,
     <<1,0,0,0,0,1,0,0,0,1,0,0,0,1,0,0,0,0,1>>,
     <<1,0,1,1,1,1,1,1,0,1,0,1,1,1,1,1,1,0,1>>,
     <<1,0,0,0,0,0,0,0,0,0,0,0,0,0,0,0,0,0,1>> >>

PACMAN_SPAWN == <<16, 9>>
GHOST_SPAWN == << <<10, 8>>, <<10, 9>>, <<10, 10>>, <<10, 11>> >>
GHOST_HOUSE_EXIT == <<9, 9>>
POWER_PELLET_POSITIONS == { <<1, 1>>, <<1, 17>>, <<16, 1>>, <<16, 17>> }
TUNNEL_LEFT == <<10, 0>>
TUNNEL_RIGHT == <<10, 18>>

\* BoardGenerator.is_valid_position
is_valid_position(row, col) ==
  /\ 0 <= row /\ row < DEFAULT_ROWS
  /\ 0 <= col /\ col < DEFAULT_COLS

\* self.maze[row][col]; generate_maze() returns a copy of the fixed template
Cell(p) == ORIGINAL_PACMAN_MAZE[p[1] + 1][p[2] + 1]

\* can_pacman_move_to testing "not a wall" instead of "is a path"
can_pacman_move_to_not_wall(row, col) ==
  IF ~is_valid_position(row, col) THEN FALSE
  ELSE Cell(<<row, col>>) # WALL

\* BoardGenerator.can_pacman_move_to
can_pacman_move_to(row, col) ==
  IF ~is_valid_position(row, col) THEN FALSE
  ELSE Cell(<<row, col>>) = PATH

\* BoardGenerator.can_ghost_move_to
can_ghost_move_to(row, col) ==
  IF ~is_valid_position(row, col) THEN FALSE
  ELSE Cell(<<row, col>>) \in {PATH, GHOST_HOUSE, GHOST_DOOR}

\* BoardGenerator.handle_tunnel_teleport
handle_tunnel_teleport(row, col) ==
  IF row = TUNNEL_LEFT[1] /\ col < 0 THEN <<row, DEFAULT_COLS - 1>>
  ELSE IF row = TUNNEL_RIGHT[1] /\ col >= DEFAULT_COLS THEN <<row, 0>>
  ELSE <<row, col>>

\* BoardGenerator.get_walkable_positions
get_walkable_positions ==
  { p \in (0 .. DEFAULT_ROWS - 1) \X (0 .. DEFAULT_COLS - 1) : Cell(p) = PATH }

\* BoardGenerator.place_all_food
place_all_food(exclude_positions) ==
  { pos \in get_walkable_positions : pos \notin exclude_positions }

\* BoardGenerator.get_power_pellets
get_power_pellets == POWER_PELLET_POSITIONS

Abs(x) == IF x < 0 THEN -x ELSE x
Manhattan(a, b) == Abs(a[1] - b[1]) + Abs(a[2] - b[2])
Range(s) == { s[k] : k \in DOMAIN s }

\* ------------------------------------------------------- entities/player.py
\* Python's None (next_direction before any input, "no move" of a ghost)
None == "<None>"
NoMove == << >>
\* No ghost has made a step
NoSteps == << NoMove, NoMove, NoMove, NoMove >>

\* The cadence threshold PacMan.move_frequency read by
\* GameCore._update_pacman_movement; the class under entities/player.py does
\* not set it, so its value is taken from the design ("ticks between
\* discrete steps").
MoveFrequency == 2

\* PacMan.__init__: the attributes the constructor sets (float_pos and speed
\* belong to the renderer's smoothing and are left out)
PacManInit(initial_position, lives) ==
  [ position       |-> initial_position,
    lives          |-> lives,
    score          |-> 0,
    direction      |-> "RIGHT",
    next_direction |-> None ]

\* The player object GameCore works on: PacMan.__init__ completed with the
\* cadence counter move_delay that _update_pacman_movement increments, which
\* the class under entities/player.py does not set
PacManNew(initial_position, lives) ==
  PacManInit(initial_position, lives) @@ [ move_delay |-> 0 ]

\* PacMan.lose_life: the state after the call; its result is lives > 0
lose_life(pm) == [pm EXCEPT !.lives = @ - 1]

\* PacMan.reset_position
reset_position(pm, new_position) ==
  [pm EXCEPT !.position = new_position,
             !.direction = "RIGHT",
             !.next_direction = None]

\* ------------------------------------------------------- entities/ghosts.py
\* self.directions: UP, DOWN, LEFT, RIGHT
directions == << <<-1, 0>>, <<1, 0>>, <<0, -1>>, <<0, 1>> >>

\* The per-archetype cadence "if self.move_counter < 20" of every move()
GHOST_MOVE_FRAMES == 20

\* Ghost.__init__: the attributes the constructor sets that the simulation
\* reads (float_pos, speed, the animation counters, ghost_type and
\* frightened_timer are never read by it and are left out)
GhostInit(initial_position) ==
  [ position         |-> initial_position,
    move_counter     |-> 0,
    last_direction   |-> <<0, 0>>,
    is_vulnerable    |-> FALSE,
    vulnerable_timer |-> 0 ]

\* The ghost object GameCore works on: Ghost.__init__ completed with the
\* housed flag in_house, which GameCore.update reads but the class under
\* entities/ghosts.py does not set (a new ghost is housed: "Crear fantasmas
\* ... DENTRO de la casa"), and with the oscillation fields in the values
\* _ghost_house_behavior gives them on its first call for the object
GhostNew(initial_position) ==
  GhostInit(initial_position)
    @@ [ in_house |-> TRUE, house_direction |-> 1, house_delay |-> 0 ]

\* Ghost.update_vulnerability
update_vulnerability(gh) ==
  IF gh.is_vulnerable
  THEN IF gh.vulnerable_timer - 1 <= 0
       THEN [gh EXCEPT !.is_vulnerable = FALSE, !.vulnerable_timer = 0]
       ELSE [gh EXCEPT !.vulnerable_timer = @ - 1]
  ELSE gh

\* The cell test every ghost move makes: inside the list bounds and
\* maze[new_row][new_col] == 0
GhostCellOk(p) == is_valid_position(p[1], p[2]) /\ Cell(p) = 0

\* "(dr, dc) != (-self.last_direction[0], -self.last_direction[1])"
NotUTurn(gh, d) == d # << -gh.last_direction[1], -gh.last_direction[2] >>

Step(p, d) == <<p[1] + d[1], p[2] + d[2]>>

\* Ghost._get_valid_moves (the list, as the set random.choice draws from)
get_valid_moves(gh) ==
  { Step(gh.position, directions[k]) : k \in
      { j \in 1..4 : /\ GhostCellOk(Step(gh.position, directions[j]))
                     /\ NotUTurn(gh, directions[j]) } }

\* Ghost._choose_random_move: any element, None for an empty list
choose_random_move(valid_moves) ==
  IF valid_moves # {} THEN valid_moves ELSE {NoMove}

\* Ghost._move_towards_target: scan in order, keep the first strict minimum
move_towards_target(gh, target) ==
  LET scan[k \in 0..4] ==
        IF k = 0 THEN [best_move |-> NoMove, found |-> FALSE, best_distance |-> 0]
        ELSE LET prev == scan[k - 1]
                 n    == Step(gh.position, directions[k])
                 dist == Manhattan(n, target)
             IN IF /\ GhostCellOk(n)
                   /\ NotUTurn(gh, directions[k])
                   /\ (~prev.found \/ dist < prev.best_distance)
                THEN [best_move |-> n, found |-> TRUE, best_distance |-> dist]
                ELSE prev
  IN scan[4].best_move

\* The "move away" branch of Inky.move / Clyde.move: the legal neighbour whose
\* direction has the greatest dot product with (self - pacman_position); both
\* components are divided by the same positive length, which does not change
\* the order of the dot products.
move_away_from(gh, from) ==
  LET dx == gh.position[1] - from[1]
      dy == gh.position[2] - from[2]
      scan[k \in 0..4] ==
        IF k = 0 THEN [best_move |-> NoMove, found |-> FALSE, best_dot |-> 0]
        ELSE LET prev == scan[k - 1]
                 d    == directions[k]
                 n    == Step(gh.position, d)
                 dot  == d[1] * dx + d[2] * dy
             IN IF /\ GhostCellOk(n)
                   /\ NotUTurn(gh, d)
                   /\ (~prev.found \/ dot > prev.best_dot)
                THEN [best_move |-> n, found |-> TRUE, best_dot |-> dot]
                ELSE prev
  IN scan[4].best_move

\* math.sqrt(dr**2 + dc**2) < limit, on integers
EuclidLess(a, b, limit) ==
  (a[1] - b[1]) * (a[1] - b[1]) + (a[2] - b[2]) * (a[2] - b[2]) < limit * limit

Clamp(lo, hi, x) == IF x < lo THEN lo ELSE IF x > hi THEN hi ELSE x

\* The next_pos each archetype's move() computes on a decision tick, as the
\* set of values it can take.  GameCore.update calls
\* ghost.move(self.maze, target_pos, self.board_gen): pacman_position is the
\* orchestrator's target, and pacman_direction is the board object (truthy,
\* and not a key of Pinky's target_offset table, so the offset is (0, 0)).
next_pos_choices(k, gh, pacman_position) ==
  IF gh.is_vulnerable THEN choose_random_move(get_valid_moves(gh))
  ELSE CASE k = 1 -> { move_towards_target(gh, pacman_position) }
         [] k = 2 -> { move_towards_target(gh,
                         << Clamp(0, DEFAULT_ROWS - 1, pacman_position[1]),
                            Clamp(0, DEFAULT_COLS - 1, pacman_position[2]) >>) }
         [] k = 3 -> IF EuclidLess(gh.position, pacman_position, 5)
                     THEN { move_away_from(gh, pacman_position) }
                     ELSE choose_random_move(get_valid_moves(gh))
         [] OTHER -> IF EuclidLess(gh.position, pacman_position, 8)
                     THEN { move_away_from(gh, pacman_position) }
                     ELSE { move_towards_target(gh, pacman_position) }

\* Blinky.move / Pinky.move / Inky.move / Clyde.move: the set of ghost
\* states one call can produce
ghost_move(k, gh, pacman_position) ==
  IF gh.move_counter + 1 < GHOST_MOVE_FRAMES
  THEN { update_vulnerability([gh EXCEPT !.move_counter = @ + 1]) }
  ELSE { update_vulnerability(
           IF next_pos = NoMove
           THEN [gh EXCEPT !.move_counter = 0]
           ELSE [gh EXCEPT !.move_counter = 0,
                           !.position = next_pos,
                           \* computed after position was overwritten
                           !.last_direction = << next_pos[1] - next_pos[1],
                                                 next_pos[2] - next_pos[2] >>])
         : next_pos \in next_pos_choices(k, gh, pacman_position) }

\* ------------------------------------------------------------- core/game.py
VARIABLES
  game_state,              \* GameCore.game_state
  level,                   \* GameCore.level
  food_positions,          \* GameCore.food_positions
  power_pellet_positions,  \* GameCore.power_pellet_positions
  power_pellet_active,     \* GameCore.power_pellet_active
  power_pellet_timer,      \* GameCore.power_pellet_timer
  ghost_release_timer,     \* GameCore.ghost_release_timer
  ghosts_released,         \* GameCore.ghosts_released
  pacman,                  \* GameCore.pacman: << >> for None, <<p>> otherwise
  ghosts,                  \* GameCore.ghosts: the list of ghost objects
  ev,                      \* what the last update() did (its prints / sounds)
  has_left,                \* ghosts (Python index) that left the house since
                           \* the last level setup or life-loss reset
  came_from,               \* per ghost, the cell it left by its last step
                           \* since it was last placed (NoMove: no step yet)
  ticks,                   \* update() calls made in phase PLAYING
  scores,                  \* ScoreManager.scores: the ranking
  added,                   \* the scores handed to add_score so far (a bag)
  score_ev                 \* what the last add_score call did

vars == << game_state, level, food_positions, power_pellet_positions,
           power_pellet_active, power_pellet_timer, ghost_release_timer,
           ghosts_released, pacman, ghosts, ev, has_left, came_from, ticks,
           scores, added, score_ev >>

\* The fields of ScoreManager and the record of its calls
scorevars == << scores, added, score_ev >>

\* The fields of GameCore and of the entities it owns
simvars == << game_state, level, food_positions, power_pellet_positions,
              power_pellet_active, power_pellet_timer, ghost_release_timer,
              ghosts_released, pacman, ghosts >>

\* Longest run of PLAYING ticks explored from an initial state
MaxTicks == 8

power_pellet_duration == 540
\* the release table with two entries exchanged
release_times_swapped == <<0, 240, 120, 360>>
release_times == <<0, 120, 240, 360>>
HOUSE_DELAY_FRAMES == 15
DOT_POINTS == 10
POWER_PELLET_POINTS == 50
GHOST_POINTS == 200

\* The record of what one operation did.  `col` is the situation at the
\* moment _check_ghost_collisions starts: the player's cell, score and lives
\* and the ghosts as they stand after their moves.
NoCol == [position |-> << >>, score |-> 0, lives |-> 0, ghosts |-> << >>]
NoEv(op) ==
  [ op |-> op, move_tick |-> FALSE, ate |-> "none",
    released |-> {}, captured |-> {}, died |-> FALSE, level_up |-> FALSE,
    col |-> NoCol,
    \* score and lives when _advance_level is entered
    before_level_up |-> [score |-> 0, lives |-> 0] ]

\* The GameCore object as a record (`self`)
Self ==
  [ game_state |-> game_state, level |-> level,
    food_positions |-> food_positions,
    power_pellet_positions |-> power_pellet_positions,
    power_pellet_active |-> power_pellet_active,
    power_pellet_timer |-> power_pellet_timer,
    ghost_release_timer |-> ghost_release_timer,
    ghosts_released |-> ghosts_released,
    pacman |-> IF pacman = << >> THEN PacManNew(PACMAN_SPAWN, 3) ELSE pacman[1],
    ghosts |-> ghosts,
    ev |-> ev,
    has_left |-> has_left,
    came_from |-> came_from ]

Becomes(g) ==
  /\ game_state' = g.game_state
  /\ level' = g.level
  /\ food_positions' = g.food_positions
  /\ power_pellet_positions' = g.power_pellet_positions
  /\ power_pellet_active' = g.power_pellet_active
  /\ power_pellet_timer' = g.power_pellet_timer
  /\ ghost_release_timer' = g.ghost_release_timer
  /\ ghosts_released' = g.ghosts_released
  /\ pacman' = << g.pacman >>
  /\ ghosts' = g.ghosts
  /\ ev' = g.ev
  /\ has_left' = g.has_left
  /\ came_from' = g.came_from

\* the pellet set of _setup_level without the discard of the power-pellet
\* cells
FullFoodWithPowerCells ==
  place_all_food({PACMAN_SPAWN} \cup Range(GHOST_SPAWN))

\* The pellet set _setup_level builds: every walkable cell but the spawns,
\* with the power-pellet cells discarded
FullFood ==
  place_all_food({PACMAN_SPAWN} \cup Range(GHOST_SPAWN)) \ POWER_PELLET_POSITIONS

\* GameCore._setup_level
setup_level(g) ==
  LET blinky == [GhostNew(GHOST_SPAWN[1]) EXCEPT !.in_house = FALSE]
  IN [g EXCEPT
        !.food_positions = FullFood,
        !.power_pellet_positions = get_power_pellets,
        !.pacman = PacManNew(PACMAN_SPAWN, 3),
        !.ghosts = << blinky, GhostNew(GHOST_SPAWN[2]),
                      GhostNew(GHOST_SPAWN[3]), GhostNew(GHOST_SPAWN[4]) >>,
        !.ghost_release_timer = 0,
        !.ghosts_released = 1,
        !.has_left = {0},
        !.came_from = NoSteps ]

\* start_new_game without its "self.level = 1"
start_new_game_keeps_level(g) ==
  setup_level([g EXCEPT !.game_state = "PLAYING",
                        !.power_pellet_active = FALSE,
                        !.power_pellet_timer = 0,
                        !.ghosts_released = 0])

\* GameCore.start_new_game
start_new_game(g) ==
  setup_level([g EXCEPT !.level = 1,
                        !.game_state = "PLAYING",
                        !.power_pellet_active = FALSE,
                        !.power_pellet_timer = 0,
                        !.ghosts_released = 0])

\* _activate_power_pellet without its "if not ghost.in_house" test
activate_power_pellet_all_ghosts(g) ==
  [g EXCEPT
     !.power_pellet_active = TRUE,
     !.power_pellet_timer = power_pellet_duration,
     !.ghosts = [k \in 1..Len(g.ghosts) |->
                   [g.ghosts[k] EXCEPT !.is_vulnerable = TRUE,
                                       !.vulnerable_timer = power_pellet_duration]] ]

\* GameCore._activate_power_pellet
activate_power_pellet(g) ==
  [g EXCEPT
     !.power_pellet_active = TRUE,
     !.power_pellet_timer = power_pellet_duration,
     !.ghosts = [k \in 1..Len(g.ghosts) |->
                   IF ~g.ghosts[k].in_house
                   THEN [g.ghosts[k] EXCEPT !.is_vulnerable = TRUE,
                                            !.vulnerable_timer = power_pellet_duration]
                   ELSE g.ghosts[k]] ]

\* GameCore._deactivate_power_pellet
deactivate_power_pellet(g) ==
  [g EXCEPT
     !.power_pellet_active = FALSE,
     !.ghosts = [k \in 1..Len(g.ghosts) |->
                   [g.ghosts[k] EXCEPT !.is_vulnerable = FALSE,
                                       !.vulnerable_timer = 0]] ]

\* the countdown of update() closing the window one tick late ("< 0")
power_pellet_step_late(g) ==
  IF g.power_pellet_active
  THEN LET g1 == [g EXCEPT !.power_pellet_timer = @ - 1]
       IN IF g1.power_pellet_timer < 0 THEN deactivate_power_pellet(g1) ELSE g1
  ELSE g

\* GameCore.update, lines 151-155: the shared vulnerability window
power_pellet_step(g) ==
  IF g.power_pellet_active
  THEN LET g1 == [g EXCEPT !.power_pellet_timer = @ - 1]
       IN IF g1.power_pellet_timer <= 0 THEN deactivate_power_pellet(g1) ELSE g1
  ELSE g

\* _check_food_collision starting the vulnerability window on a dot as well
check_food_collision_dot_activates(g) ==
  LET pos_tuple == g.pacman.position
  IN IF pos_tuple \in g.food_positions
     THEN activate_power_pellet(
            [g EXCEPT !.food_positions = @ \ {pos_tuple},
                      !.pacman.score = @ + DOT_POINTS,
                      !.ev.ate = "dot"])
     ELSE IF pos_tuple \in g.power_pellet_positions
     THEN activate_power_pellet(
            [g EXCEPT !.power_pellet_positions = @ \ {pos_tuple},
                      !.pacman.score = @ + POWER_PELLET_POINTS,
                      !.ev.ate = "power"])
     ELSE g

\* _check_food_collision toggling membership (symmetric difference) instead
\* of removing: a cell without an item gets a dot
check_food_collision_toggle(g) ==
  LET pos_tuple == g.pacman.position
  IN IF pos_tuple \in g.food_positions
     THEN [g EXCEPT !.food_positions = @ \ {pos_tuple},
                    !.pacman.score = @ + DOT_POINTS,
                    !.ev.ate = "dot"]
     ELSE IF pos_tuple \in g.power_pellet_positions
     THEN activate_power_pellet(
            [g EXCEPT !.power_pellet_positions = @ \ {pos_tuple},
                      !.pacman.score = @ + POWER_PELLET_POINTS,
                      !.ev.ate = "power"])
     ELSE [g EXCEPT !.food_positions = @ \cup {pos_tuple}]

\* GameCore._check_food_collision
check_food_collision(g) ==
  LET pos_tuple == g.pacman.position
  IN IF pos_tuple \in g.food_positions
     THEN [g EXCEPT !.food_positions = @ \ {pos_tuple},
                    !.pacman.score = @ + DOT_POINTS,
                    !.ev.ate = "dot"]
     ELSE IF pos_tuple \in g.power_pellet_positions
     THEN activate_power_pellet(
            [g EXCEPT !.power_pellet_positions = @ \ {pos_tuple},
                      !.pacman.score = @ + POWER_PELLET_POINTS,
                      !.ev.ate = "power"])
     ELSE g

\* direction_map.get(direction, (0, 0))
direction_map(d) ==
  CASE d = "UP" -> <<-1, 0>>
    [] d = "DOWN" -> <<1, 0>>
    [] d = "LEFT" -> <<0, -1>>
    [] d = "RIGHT" -> <<0, 1>>
    [] OTHER -> <<0, 0>>

\* _update_pacman_movement trying the current facing before the queued
\* direction
update_pacman_movement_facing_first(g) ==
  LET g1 == [g EXCEPT !.pacman.move_delay = @ + 1]
  IN IF g1.pacman.move_delay < MoveFrequency THEN g1
     ELSE
       LET g2   == [g1 EXCEPT !.pacman.move_delay = 0, !.ev.move_tick = TRUE]
           pm   == g2.pacman
           nxt  == Step(pm.position, direction_map(pm.next_direction))
           cur  == Step(pm.position, direction_map(pm.direction))
           curT == handle_tunnel_teleport(cur[1], cur[2])
       IN IF can_pacman_move_to(curT[1], curT[2])
          THEN check_food_collision([g2 EXCEPT !.pacman.position = curT])
          ELSE IF pm.next_direction # None /\ pm.next_direction # ""
                  /\ can_pacman_move_to(nxt[1], nxt[2])
          THEN check_food_collision(
                 [g2 EXCEPT !.pacman.direction = pm.next_direction,
                            !.pacman.position = nxt])
          ELSE g2

\* _update_pacman_movement without its "self.pacman.move_delay = 0"
update_pacman_movement_no_reset(g) ==
  LET g1 == [g EXCEPT !.pacman.move_delay = @ + 1]
  IN IF g1.pacman.move_delay < MoveFrequency THEN g1
     ELSE
       LET g2   == [g1 EXCEPT !.ev.move_tick = TRUE]
           pm   == g2.pacman
           nxt  == Step(pm.position, direction_map(pm.next_direction))
           cur  == Step(pm.position, direction_map(pm.direction))
           curT == handle_tunnel_teleport(cur[1], cur[2])
       IN IF pm.next_direction # None /\ pm.next_direction # ""
             /\ can_pacman_move_to(nxt[1], nxt[2])
          THEN check_food_collision(
                 [g2 EXCEPT !.pacman.direction = pm.next_direction,
                            !.pacman.position = nxt])
          ELSE IF can_pacman_move_to(curT[1], curT[2])
          THEN check_food_collision([g2 EXCEPT !.pacman.position = curT])
          ELSE g2

\* GameCore._update_pacman_movement
update_pacman_movement(g) ==
  LET g1 == [g EXCEPT !.pacman.move_delay = @ + 1]
  IN IF g1.pacman.move_delay < MoveFrequency THEN g1
     ELSE
       LET g2   == [g1 EXCEPT !.pacman.move_delay = 0, !.ev.move_tick = TRUE]
           pm   == g2.pacman
           nxt  == Step(pm.position, direction_map(pm.next_direction))
           cur  == Step(pm.position, direction_map(pm.direction))
           curT == handle_tunnel_teleport(cur[1], cur[2])
       IN IF pm.next_direction # None /\ pm.next_direction # ""
             /\ can_pacman_move_to(nxt[1], nxt[2])
          THEN check_food_collision(
                 [g2 EXCEPT !.pacman.direction = pm.next_direction,
                            !.pacman.position = nxt])
          ELSE IF can_pacman_move_to(curT[1], curT[2])
          THEN check_food_collision([g2 EXCEPT !.pacman.position = curT])
          ELSE g2

\* GameCore._update_ghost_release: the loop over release_times, with
\* ghosts_released re-read at every iteration
update_ghost_release(g) ==
  IF g.ghosts_released >= Len(g.ghosts) THEN g
  ELSE
    LET g1 == [g EXCEPT !.ghost_release_timer = @ + 1]
        loop[k \in 0..Len(release_times)] ==
          IF k = 0 THEN g1
          ELSE LET p == loop[k - 1]
                   i == k - 1     \* the Python index of this iteration
               IN IF i < p.ghosts_released THEN p
                  ELSE IF p.ghost_release_timer >= release_times[k] /\ i < Len(p.ghosts)
                  THEN [p EXCEPT !.ghosts[k].in_house = FALSE,
                                 !.ghosts[k].position = GHOST_HOUSE_EXIT,
                                 !.ghosts_released = @ + 1,
                                 !.ev.released = @ \cup {i},
                                 !.has_left = @ \cup {i},
                                 !.came_from[k] = NoMove]
                  ELSE p
    IN loop[Len(release_times)]

\* GameCore._ghost_house_behavior
ghost_house_behavior(gh) ==
  LET gh1 == [gh EXCEPT !.house_delay = @ + 1]
  IN IF gh1.house_delay < HOUSE_DELAY_FRAMES THEN gh1
     ELSE LET gh2 == [gh1 EXCEPT !.house_delay = 0]
              new_row == gh2.position[1] + gh2.house_direction
          IN IF new_row < GHOST_SPAWN[1][1] - 1 \/ new_row > GHOST_SPAWN[1][1] + 1
             THEN [gh2 EXCEPT !.house_direction = -@]
             ELSE [gh2 EXCEPT !.position = <<new_row, gh2.position[2]>>]

\* The corners of GameCore._get_scatter_target, in list order
corners ==
  << <<1, 1>>, <<1, DEFAULT_COLS - 2>>,
     <<DEFAULT_ROWS - 2, 1>>, <<DEFAULT_ROWS - 2, DEFAULT_COLS - 2>> >>

\* GameCore._get_scatter_target
get_scatter_target(g, k, flee) ==
  IF flee
  THEN \* corners[distances.index(max(distances))]: the first farthest corner
       LET dist(j) == Manhattan(corners[j], g.pacman.position)
           far == CHOOSE j \in 1..4 :
                    /\ \A m \in 1..4 : dist(m) <= dist(j)
                    /\ \A m \in 1..(j - 1) : dist(m) < dist(j)
       IN corners[far]
  ELSE CASE k = 1 -> corners[2]
         [] k = 2 -> corners[1]
         [] k = 3 -> corners[4]
         [] OTHER -> corners[3]

\* _get_ghost_target with Pinky's target on the player's own cell
get_ghost_target_pinky_on_player(g, k) ==
  LET gh == g.ghosts[k]
      pp == g.pacman.position
  IN IF gh.is_vulnerable THEN get_scatter_target(g, k, TRUE)
     ELSE CASE k = 1 -> pp
            [] k = 2 -> pp
            [] k = 3 -> IF Manhattan(gh.position, pp) < 8 THEN pp
                        ELSE get_scatter_target(g, k, FALSE)
            [] OTHER -> IF Manhattan(gh.position, pp) > 8 THEN pp
                        ELSE get_scatter_target(g, k, FALSE)

\* GameCore._get_ghost_target
get_ghost_target(g, k) ==
  LET gh == g.ghosts[k]
      pp == g.pacman.position
  IN IF gh.is_vulnerable THEN get_scatter_target(g, k, TRUE)
     ELSE CASE k = 1 -> pp
            [] k = 2 -> LET d == direction_map(g.pacman.direction)
                        IN <<pp[1] + 4 * d[1], pp[2] + 4 * d[2]>>
            [] k = 3 -> IF Manhattan(gh.position, pp) < 8 THEN pp
                        ELSE get_scatter_target(g, k, FALSE)
            [] OTHER -> IF Manhattan(gh.position, pp) > 8 THEN pp
                        ELSE get_scatter_target(g, k, FALSE)

\* GameCore.update, lines 163-171: what the loop can make of ghost k
ghost_step(g, k) ==
  IF ~g.ghosts[k].in_house
  THEN ghost_move(k, g.ghosts[k], get_ghost_target(g, k))
  ELSE { ghost_house_behavior(g.ghosts[k]) }

\* ... and of the whole list (no ghost reads another ghost's fields)
ghosts_step(g) ==
  IF Len(g.ghosts) = 0 THEN { g }
  ELSE { [g EXCEPT !.ghosts = <<a, b, c, d>>,
                   !.came_from = [k \in 1..4 |->
                      IF /\ ~g.ghosts[k].in_house
                         /\ <<a, b, c, d>>[k].position # g.ghosts[k].position
                      THEN g.ghosts[k].position ELSE g.came_from[k]]] :
           a \in ghost_step(g, 1), b \in ghost_step(g, 2),
           c \in ghost_step(g, 3), d \in ghost_step(g, 4) }

\* _eat_ghost without the reset of the ghost's position to its home cell
eat_ghost_stays_in_place(g, k) ==
  [g EXCEPT !.ghosts[k].is_vulnerable = FALSE,
            !.ghosts[k].vulnerable_timer = 0,
            !.ghosts[k].in_house = TRUE,
            !.pacman.score = @ + GHOST_POINTS,
            !.ev.captured = @ \cup {k - 1},
            !.came_from[k] = NoMove]

\* GameCore._eat_ghost
eat_ghost(g, k) ==
  [g EXCEPT !.ghosts[k].is_vulnerable = FALSE,
            !.ghosts[k].vulnerable_timer = 0,
            !.ghosts[k].in_house = TRUE,
            !.ghosts[k].position = GHOST_SPAWN[k],
            !.pacman.score = @ + GHOST_POINTS,
            !.ev.captured = @ \cup {k - 1},
            !.came_from[k] = NoMove]

\* _pacman_dies testing "lives >= 0" instead of lose_life()'s "lives > 0"
pacman_dies_off_by_one(g) ==
  LET g1 == [g EXCEPT !.pacman = lose_life(@), !.ev.died = TRUE]
  IN IF g1.pacman.lives >= 0
     THEN [g1 EXCEPT
             !.pacman = reset_position(@, PACMAN_SPAWN),
             !.ghosts = [k \in 1..Len(g1.ghosts) |->
                           [g1.ghosts[k] EXCEPT !.position = GHOST_SPAWN[k],
                                                !.in_house = (k # 1),
                                                !.is_vulnerable = FALSE]],
             !.ghosts_released = 1,
             !.has_left = {0},
             !.came_from = NoSteps]
     ELSE [g1 EXCEPT !.game_state = "GAME_OVER"]

\* _pacman_dies setting ghost_release_timer back to 0 with the release counter
pacman_dies_restarts_release_timer(g) ==
  LET g1 == [g EXCEPT !.pacman = lose_life(@), !.ev.died = TRUE]
  IN IF g1.pacman.lives > 0
     THEN [g1 EXCEPT
             !.pacman = reset_position(@, PACMAN_SPAWN),
             !.ghosts = [k \in 1..Len(g1.ghosts) |->
                           [g1.ghosts[k] EXCEPT !.position = GHOST_SPAWN[k],
                                                !.in_house = (k # 1),
                                                !.is_vulnerable = FALSE]],
             !.ghosts_released = 1,
             !.ghost_release_timer = 0,
             !.has_left = {0},
             !.came_from = NoSteps]
     ELSE [g1 EXCEPT !.game_state = "GAME_OVER"]

\* GameCore._pacman_dies
pacman_dies(g) ==
  LET g1 == [g EXCEPT !.pacman = lose_life(@), !.ev.died = TRUE]
  IN IF g1.pacman.lives > 0
     THEN [g1 EXCEPT
             !.pacman = reset_position(@, PACMAN_SPAWN),
             !.ghosts = [k \in 1..Len(g1.ghosts) |->
                           [g1.ghosts[k] EXCEPT !.position = GHOST_SPAWN[k],
                                                !.in_house = (k # 1),
                                                !.is_vulnerable = FALSE]],
             !.ghosts_released = 1,
             !.has_left = {0},
             !.came_from = NoSteps]
     ELSE [g1 EXCEPT !.game_state = "GAME_OVER"]

\* What _check_ghost_collisions sees when it starts
collision_view(g) ==
  [ position |-> g.pacman.position, score |-> g.pacman.score,
    lives |-> g.pacman.lives,
    ghosts |-> [k \in 1..Len(g.ghosts) |->
                  [ position |-> g.ghosts[k].position,
                    in_house |-> g.ghosts[k].in_house,
                    is_vulnerable |-> g.ghosts[k].is_vulnerable ]] ]

\* GameCore._check_ghost_collisions: the first ghost, in list order, that is
\* out of the house and on the player's cell is handled, then the loop breaks
check_ghost_collisions(g) ==
  LET g0 == [g EXCEPT !.ev.col = collision_view(g)]
      hit == { k \in 1..Len(g.ghosts) :
                 ~g.ghosts[k].in_house /\ g.pacman.position = g.ghosts[k].position }
  IN IF hit = {} THEN g0
     ELSE LET k == CHOOSE j \in hit : \A m \in hit : j <= m
          IN IF g.ghosts[k].is_vulnerable THEN eat_ghost(g0, k) ELSE pacman_dies(g0)

\* _advance_level without its call of _setup_level
advance_level_no_setup(g) ==
  [g EXCEPT !.level = @ + 1,
            !.ev.level_up = TRUE,
            !.ev.before_level_up = [score |-> g.pacman.score,
                                    lives |-> g.pacman.lives]]

\* GameCore._advance_level
advance_level(g) ==
  setup_level([g EXCEPT !.level = @ + 1,
                        !.ev.level_up = TRUE,
                        !.ev.before_level_up = [score |-> g.pacman.score,
                                                lives |-> g.pacman.lives]])

\* GameCore.update, lines 176-178
level_complete_step(g) ==
  IF g.food_positions = {} /\ g.power_pellet_positions = {}
  THEN advance_level(g) ELSE g

\* GameCore.update in phase PLAYING: every state one call can end in
update(g) ==
  { level_complete_step(check_ghost_collisions(g4)) :
      g4 \in ghosts_step(update_ghost_release(update_pacman_movement(
               power_pellet_step([g EXCEPT !.ev = NoEv("update")])))) }

\* --------------------------------------------------- data/score_manager.py
\* "self.scores[:10]"
RANKING_SIZE == 10

\* Most add_score calls made on one ScoreManager
MaxAdds == 11
\* Scores and player names handed to add_score
ScoreValues == 1..2
Names == {"A", "B"}

\* list.sort(key=lambda x: x["score"], reverse=True): entries in descending
\* order of score, entries of equal score in the order they had (the sort is
\* stable, also with reverse=True)
RECURSIVE sort_by_score(_)
sort_by_score(entries) ==
  IF Len(entries) <= 1 THEN entries
  ELSE LET front == sort_by_score(SubSeq(entries, 1, Len(entries) - 1))
           x     == entries[Len(entries)]
           n     == Cardinality({ i \in 1..Len(front) : front[i].score >= x.score })
       IN SubSeq(front, 1, n) \o << x >> \o SubSeq(front, n + 1, Len(front))

\* "self.scores[:10]"
Truncate(entries) ==
  IF Len(entries) > RANKING_SIZE THEN SubSeq(entries, 1, RANKING_SIZE) ELSE entries

\* add_score cutting the list to ten entries before it sorts
add_score_cuts_before_sort(ranking, score, lvl, name) ==
  LET new_entry == [score |-> score, level |-> lvl, name |-> name]
      kept      == Truncate(Append(ranking, new_entry))
      sorted    == sort_by_score(kept)
  IN [ scores    |-> sorted,
       ret       |-> \E i \in 1..Len(sorted) : sorted[i] = new_entry,
       retained  |-> Len(ranking) < RANKING_SIZE,
       new_entry |-> new_entry ]

\* ScoreManager.add_score: the new list, the value returned ("new_entry in
\* self.scores", an equality test on dicts), and whether the appended object
\* itself is among the entries kept (it is sorted behind every entry whose
\* score is at least its own)
add_score(ranking, score, lvl, name) ==
  LET new_entry == [score |-> score, level |-> lvl, name |-> name]
      sorted    == sort_by_score(Append(ranking, new_entry))
      kept      == Truncate(sorted)
      place     == Cardinality({ i \in 1..Len(ranking) : ranking[i].score >= score }) + 1
  IN [ scores    |-> kept,
       ret       |-> \E i \in 1..Len(kept) : kept[i] = new_entry,
       retained  |-> place <= RANKING_SIZE,
       new_entry |-> new_entry ]

\* ScoreManager.is_high_score
is_high_score(ranking, score) ==
  IF Len(ranking) < RANKING_SIZE THEN TRUE
  ELSE score > ranking[Len(ranking)].score

\* What the last add_score call did
NoScoreEv == [op |-> "none", ret |-> FALSE, retained |-> FALSE]

\* ScoreManager.__init__ with no score file on disk
NoRanking ==
  /\ scores = << >>
  /\ added = EmptyBag
  /\ score_ev = NoScoreEv

\* score_manager.add_score(score, level, name)
AddScore(score, lvl, name) ==
  LET r == add_score(scores, score, lvl, name)
  IN /\ scores' = r.scores
     /\ added' = added (+) SetToBag({score})
     /\ score_ev' = [op |-> "add_score", ret |-> r.ret, retained |-> r.retained]

\* -------------------------------------------------------------- operations
\* Values handed to handle_input: the five the main loop sends and one that
\* is none of them
Inputs == {"UP", "DOWN", "LEFT", "RIGHT", "PAUSE", "JUMP"}

\* GameCore.__init__
InitialState ==
  /\ game_state = "MENU"
  /\ level = 1
  /\ food_positions = {}
  /\ power_pellet_positions = {}
  /\ power_pellet_active = FALSE
  /\ power_pellet_timer = 0
  /\ ghost_release_timer = 0
  /\ ghosts_released = 0
  /\ pacman = << >>
  /\ ghosts = << >>
  /\ ev = NoEv("init")
  /\ has_left = {}
  /\ came_from = NoSteps
  /\ ticks = 0
  /\ NoRanking

\* Scenario states.  Each is the state GameCore is in after start_new_game()
\* and a recorded sequence of handle_input / update calls, a few update()
\* calls before an event (a release, a collision, the end of a level ...):
\* the countdowns of the program (hundreds of ticks) put these events far
\* beyond the tick budget MaxTicks when starting from the menu.
ScRelease1 ==
  [game_state |-> "PLAYING", level |-> 1,
     food_positions |-> FullFood \ {<<16, 10>>, <<16, 11>>},
     power_pellet_positions |-> {<<1, 1>>, <<1, 17>>, <<16, 1>>, <<16, 17>>},
     power_pellet_active |-> FALSE, power_pellet_timer |-> 0,
     ghost_release_timer |-> 116, ghosts_released |-> 1,
     pacman |-> [position |-> <<16, 11>>, lives |-> 3, score |-> 20, direction |-> "RIGHT", next_direction |-> "LEFT", move_delay |-> 0],
     ghosts |-> << [position |-> <<10, 8>>, move_counter |-> 16, last_direction |-> <<0, 0>>, is_vulnerable |-> FALSE, vulnerable_timer |-> 0, in_house |-> FALSE, house_direction |-> 1, house_delay |-> 0],
                 [position |-> <<11, 9>>, move_counter |-> 0, last_direction |-> <<0, 0>>, is_vulnerable |-> FALSE, vulnerable_timer |-> 0, in_house |-> TRUE, house_direction |-> 1, house_delay |-> 11],
                 [position |-> <<11, 10>>, move_counter |-> 0, last_direction |-> <<0, 0>>, is_vulnerable |-> FALSE, vulnerable_timer |-> 0, in_house |-> TRUE, house_direction |-> 1, house_delay |-> 11],
                 [position |-> <<11, 11>>, move_counter |-> 0, last_direction |-> <<0, 0>>, is_vulnerable |-> FALSE, vulnerable_timer |-> 0, in_house |-> TRUE, house_direction |-> 1, house_delay |-> 11] >>,
     ev |-> NoEv("scenario"),
     has_left |-> {0},
     came_from |-> << NoMove, NoMove, NoMove, NoMove >>]

ScRelease2 ==
  [game_state |-> "PLAYING", level |-> 1,
     food_positions |-> FullFood \ {<<16, 10>>, <<16, 11>>},
     power_pellet_positions |-> {<<1, 1>>, <<1, 17>>, <<16, 1>>, <<16, 17>>},
     power_pellet_active |-> FALSE, power_pellet_timer |-> 0,
     ghost_release_timer |-> 236, ghosts_released |-> 2,
     pacman |-> [position |-> <<16, 11>>, lives |-> 3, score |-> 20, direction |-> "RIGHT", next_direction |-> "LEFT", move_delay |-> 0],
     ghosts |-> << [position |-> <<10, 8>>, move_counter |-> 16, last_direction |-> <<0, 0>>, is_vulnerable |-> FALSE, vulnerable_timer |-> 0, in_house |-> FALSE, house_direction |-> 1, house_delay |-> 0],
                 [position |-> <<9, 6>>, move_counter |-> 17, last_direction |-> <<0, 0>>, is_vulnerable |-> FALSE, vulnerable_timer |-> 0, in_house |-> FALSE, house_direction |-> 1, house_delay |-> 14],
                 [position |-> <<10, 10>>, move_counter |-> 0, last_direction |-> <<0, 0>>, is_vulnerable |-> FALSE, vulnerable_timer |-> 0, in_house |-> TRUE, house_direction |-> -1, house_delay |-> 11],
                 [position |-> <<10, 11>>, move_counter |-> 0, last_direction |-> <<0, 0>>, is_vulnerable |-> FALSE, vulnerable_timer |-> 0, in_house |-> TRUE, house_direction |-> -1, house_delay |-> 11] >>,
     ev |-> NoEv("scenario"),
     has_left |-> {0, 1},
     came_from |-> << NoMove, <<8, 6>>, NoMove, NoMove >>]

ScRelease3 ==
  [game_state |-> "PLAYING", level |-> 1,
     food_positions |-> FullFood \ {<<16, 10>>, <<16, 11>>},
     power_pellet_positions |-> {<<1, 1>>, <<1, 17>>, <<16, 1>>, <<16, 17>>},
     power_pellet_active |-> FALSE, power_pellet_timer |-> 0,
     ghost_release_timer |-> 356, ghosts_released |-> 3,
     pacman |-> [position |-> <<16, 11>>, lives |-> 3, score |-> 20, direction |-> "RIGHT", next_direction |-> "LEFT", move_delay |-> 0],
     ghosts |-> << [position |-> <<10, 8>>, move_counter |-> 16, last_direction |-> <<0, 0>>, is_vulnerable |-> FALSE, vulnerable_timer |-> 0, in_house |-> FALSE, house_direction |-> 1, house_delay |-> 0],
                 [position |-> <<13, 6>>, move_counter |-> 17, last_direction |-> <<0, 0>>, is_vulnerable |-> FALSE, vulnerable_timer |-> 0, in_house |-> FALSE, house_direction |-> 1, house_delay |-> 14],
                 [position |-> <<8, 11>>, move_counter |-> 17, last_direction |-> <<0, 0>>, is_vulnerable |-> FALSE, vulnerable_timer |-> 0, in_house |-> FALSE, house_direction |-> -1, house_delay |-> 14],
                 [position |-> <<9, 11>>, move_counter |-> 0, last_direction |-> <<0, 0>>, is_vulnerable |-> FALSE, vulnerable_timer |-> 0, in_house |-> TRUE, house_direction |-> 1, house_delay |-> 11] >>,
     ev |-> NoEv("scenario"),
     has_left |-> {0, 1, 2},
     came_from |-> << NoMove, <<14, 6>>, <<8, 10>>, NoMove >>]

ScDeathEarly ==
  [game_state |-> "PLAYING", level |-> 1,
     food_positions |-> FullFood \ {<<8, 6>>, <<8, 7>>, <<8, 8>>, <<8, 9>>, <<8, 10>>, <<9, 6>>, <<10, 6>>, <<11, 6>>, <<12, 6>>, <<13, 6>>, <<14, 6>>, <<14, 7>>, <<14, 8>>, <<15, 8>>, <<16, 8>>},
     power_pellet_positions |-> {<<1, 1>>, <<1, 17>>, <<16, 1>>, <<16, 17>>},
     power_pellet_active |-> FALSE, power_pellet_timer |-> 0,
     ghost_release_timer |-> 136, ghosts_released |-> 2,
     pacman |-> [position |-> <<8, 9>>, lives |-> 3, score |-> 150, direction |-> "LEFT", next_direction |-> "LEFT", move_delay |-> 0],
     ghosts |-> << [position |-> <<10, 8>>, move_counter |-> 16, last_direction |-> <<0, 0>>, is_vulnerable |-> FALSE, vulnerable_timer |-> 0, in_house |-> FALSE, house_direction |-> 1, house_delay |-> 0],
                 [position |-> <<9, 9>>, move_counter |-> 17, last_direction |-> <<0, 0>>, is_vulnerable |-> FALSE, vulnerable_timer |-> 0, in_house |-> FALSE, house_direction |-> 1, house_delay |-> 14],
                 [position |-> <<10, 10>>, move_counter |-> 0, last_direction |-> <<0, 0>>, is_vulnerable |-> FALSE, vulnerable_timer |-> 0, in_house |-> TRUE, house_direction |-> -1, house_delay |-> 1],
                 [position |-> <<10, 11>>, move_counter |-> 0, last_direction |-> <<0, 0>>, is_vulnerable |-> FALSE, vulnerable_timer |-> 0, in_house |-> TRUE, house_direction |-> -1, house_delay |-> 1] >>,
     ev |-> NoEv("scenario"),
     has_left |-> {0, 1},
     came_from |-> << NoMove, NoMove, NoMove, NoMove >>]

ScDeathLate ==
  [game_state |-> "PLAYING", level |-> 1,
     food_positions |-> FullFood \ {<<14, 8>>, <<15, 8>>, <<16, 8>>, <<16, 10>>, <<16, 11>>},
     power_pellet_positions |-> {<<1, 1>>, <<1, 17>>, <<16, 1>>, <<16, 17>>},
     power_pellet_active |-> FALSE, power_pellet_timer |-> 0,
     ghost_release_timer |-> 360, ghosts_released |-> 4,
     pacman |-> [position |-> <<14, 8>>, lives |-> 3, score |-> 50, direction |-> "UP", next_direction |-> "LEFT", move_delay |-> 0],
     ghosts |-> << [position |-> <<10, 8>>, move_counter |-> 10, last_direction |-> <<0, 0>>, is_vulnerable |-> FALSE, vulnerable_timer |-> 0, in_house |-> FALSE, house_direction |-> 1, house_delay |-> 0],
                 [position |-> <<14, 6>>, move_counter |-> 11, last_direction |-> <<0, 0>>, is_vulnerable |-> FALSE, vulnerable_timer |-> 0, in_house |-> FALSE, house_direction |-> 1, house_delay |-> 14],
                 [position |-> <<8, 12>>, move_counter |-> 11, last_direction |-> <<0, 0>>, is_vulnerable |-> FALSE, vulnerable_timer |-> 0, in_house |-> FALSE, house_direction |-> -1, house_delay |-> 14],
                 [position |-> <<9, 9>>, move_counter |-> 11, last_direction |-> <<0, 0>>, is_vulnerable |-> FALSE, vulnerable_timer |-> 0, in_house |-> FALSE, house_direction |-> 1, house_delay |-> 14] >>,
     ev |-> NoEv("scenario"),
     has_left |-> {0, 1, 2, 3},
     came_from |-> << NoMove, <<13, 6>>, <<8, 11>>, NoMove >>]

ScLastLife ==
  [game_state |-> "PLAYING", level |-> 1,
     food_positions |-> FullFood \ {<<8, 6>>, <<8, 7>>, <<8, 8>>, <<9, 6>>, <<10, 6>>, <<11, 6>>, <<12, 6>>, <<13, 6>>, <<14, 6>>, <<14, 7>>, <<14, 8>>, <<15, 8>>, <<16, 8>>, <<16, 10>>, <<16, 11>>},
     power_pellet_positions |-> {<<1, 1>>, <<1, 17>>, <<16, 1>>, <<16, 17>>},
     power_pellet_active |-> FALSE, power_pellet_timer |-> 0,
     ghost_release_timer |-> 362, ghosts_released |-> 4,
     pacman |-> [position |-> <<8, 7>>, lives |-> 1, score |-> 150, direction |-> "RIGHT", next_direction |-> "RIGHT", move_delay |-> 0],
     ghosts |-> << [position |-> <<10, 8>>, move_counter |-> 4, last_direction |-> <<0, 0>>, is_vulnerable |-> FALSE, vulnerable_timer |-> 0, in_house |-> FALSE, house_direction |-> 1, house_delay |-> 0],
                 [position |-> <<8, 9>>, move_counter |-> 5, last_direction |-> <<0, 0>>, is_vulnerable |-> FALSE, vulnerable_timer |-> 0, in_house |-> FALSE, house_direction |-> 1, house_delay |-> 14],
                 [position |-> <<8, 9>>, move_counter |-> 5, last_direction |-> <<0, 0>>, is_vulnerable |-> FALSE, vulnerable_timer |-> 0, in_house |-> FALSE, house_direction |-> -1, house_delay |-> 14],
                 [position |-> <<8, 9>>, move_counter |-> 5, last_direction |-> <<0, 0>>, is_vulnerable |-> FALSE, vulnerable_timer |-> 0, in_house |-> FALSE, house_direction |-> 1, house_delay |-> 14] >>,
     ev |-> NoEv("scenario"),
     has_left |-> {0, 1, 2, 3},
     came_from |-> << NoMove, <<9, 9>>, <<9, 9>>, <<9, 9>> >>]

ScPower ==
  [game_state |-> "PLAYING", level |-> 1,
     food_positions |-> FullFood \ {<<16, 10>>, <<16, 11>>, <<16, 12>>, <<16, 13>>, <<16, 14>>, <<16, 16>>, <<17, 14>>, <<17, 16>>, <<18, 14>>, <<18, 15>>, <<18, 16>>},
     power_pellet_positions |-> {<<1, 1>>, <<1, 17>>, <<16, 1>>, <<16, 17>>},
     power_pellet_active |-> FALSE, power_pellet_timer |-> 0,
     ghost_release_timer |-> 124, ghosts_released |-> 2,
     pacman |-> [position |-> <<17, 16>>, lives |-> 3, score |-> 110, direction |-> "DOWN", next_direction |-> "UP", move_delay |-> 0],
     ghosts |-> << [position |-> <<10, 8>>, move_counter |-> 4, last_direction |-> <<0, 0>>, is_vulnerable |-> FALSE, vulnerable_timer |-> 0, in_house |-> FALSE, house_direction |-> 1, house_delay |-> 0],
                 [position |-> <<9, 9>>, move_counter |-> 5, last_direction |-> <<0, 0>>, is_vulnerable |-> FALSE, vulnerable_timer |-> 0, in_house |-> FALSE, house_direction |-> 1, house_delay |-> 14],
                 [position |-> <<11, 10>>, move_counter |-> 0, last_direction |-> <<0, 0>>, is_vulnerable |-> FALSE, vulnerable_timer |-> 0, in_house |-> TRUE, house_direction |-> -1, house_delay |-> 4],
                 [position |-> <<11, 11>>, move_counter |-> 0, last_direction |-> <<0, 0>>, is_vulnerable |-> FALSE, vulnerable_timer |-> 0, in_house |-> TRUE, house_direction |-> -1, house_delay |-> 4] >>,
     ev |-> NoEv("scenario"),
     has_left |-> {0, 1},
     came_from |-> << NoMove, NoMove, NoMove, NoMove >>]

ScCapture ==
  [game_state |-> "PLAYING", level |-> 1,
     food_positions |-> FullFood \ {<<8, 10>>, <<8, 11>>, <<8, 12>>, <<9, 12>>, <<10, 12>>, <<10, 13>>, <<10, 14>>, <<11, 14>>, <<12, 14>>, <<13, 14>>, <<14, 14>>, <<14, 15>>, <<14, 16>>, <<14, 17>>, <<15, 17>>, <<16, 10>>, <<16, 11>>, <<16, 12>>, <<16, 13>>, <<16, 14>>, <<16, 16>>, <<17, 14>>, <<17, 16>>, <<18, 14>>, <<18, 15>>, <<18, 16>>},
     power_pellet_positions |-> {<<1, 1>>, <<1, 17>>, <<16, 1>>},
     power_pellet_active |-> TRUE, power_pellet_timer |-> 510,
     ghost_release_timer |-> 158, ghosts_released |-> 2,
     pacman |-> [position |-> <<8, 10>>, lives |-> 3, score |-> 310, direction |-> "LEFT", next_direction |-> "LEFT", move_delay |-> 0],
     ghosts |-> << [position |-> <<10, 8>>, move_counter |-> 18, last_direction |-> <<0, 0>>, is_vulnerable |-> TRUE, vulnerable_timer |-> 509, in_house |-> FALSE, house_direction |-> 1, house_delay |-> 0],
                 [position |-> <<8, 9>>, move_counter |-> 19, last_direction |-> <<0, 0>>, is_vulnerable |-> TRUE, vulnerable_timer |-> 509, in_house |-> FALSE, house_direction |-> 1, house_delay |-> 14],
                 [position |-> <<9, 10>>, move_counter |-> 0, last_direction |-> <<0, 0>>, is_vulnerable |-> FALSE, vulnerable_timer |-> 0, in_house |-> TRUE, house_direction |-> -1, house_delay |-> 8],
                 [position |-> <<9, 11>>, move_counter |-> 0, last_direction |-> <<0, 0>>, is_vulnerable |-> FALSE, vulnerable_timer |-> 0, in_house |-> TRUE, house_direction |-> -1, house_delay |-> 8] >>,
     ev |-> NoEv("scenario"),
     has_left |-> {0, 1},
     came_from |-> << NoMove, <<9, 9>>, NoMove, NoMove >>]

ScMixed ==
  [game_state |-> "PLAYING", level |-> 1,
     food_positions |-> FullFood \ {<<8, 10>>, <<8, 11>>, <<8, 12>>, <<9, 12>>, <<10, 12>>, <<10, 13>>, <<10, 14>>, <<11, 14>>, <<12, 14>>, <<13, 14>>, <<14, 14>>, <<14, 15>>, <<14, 16>>, <<14, 17>>, <<15, 17>>, <<16, 10>>, <<16, 11>>, <<16, 12>>, <<16, 13>>, <<16, 14>>, <<16, 16>>, <<17, 14>>, <<17, 16>>, <<18, 14>>, <<18, 15>>, <<18, 16>>},
     power_pellet_positions |-> {<<1, 1>>, <<1, 17>>, <<16, 1>>},
     power_pellet_active |-> TRUE, power_pellet_timer |-> 412,
     ghost_release_timer |-> 256, ghosts_released |-> 3,
     pacman |-> [position |-> <<8, 11>>, lives |-> 3, score |-> 310, direction |-> "RIGHT", next_direction |-> "LEFT", move_delay |-> 0],
     ghosts |-> << [position |-> <<10, 8>>, move_counter |-> 16, last_direction |-> <<0, 0>>, is_vulnerable |-> TRUE, vulnerable_timer |-> 411, in_house |-> FALSE, house_direction |-> 1, house_delay |-> 0],
                 [position |-> <<8, 8>>, move_counter |-> 17, last_direction |-> <<0, 0>>, is_vulnerable |-> TRUE, vulnerable_timer |-> 411, in_house |-> FALSE, house_direction |-> 1, house_delay |-> 14],
                 [position |-> <<9, 9>>, move_counter |-> 17, last_direction |-> <<0, 0>>, is_vulnerable |-> FALSE, vulnerable_timer |-> 0, in_house |-> FALSE, house_direction |-> -1, house_delay |-> 14],
                 [position |-> <<9, 11>>, move_counter |-> 0, last_direction |-> <<0, 0>>, is_vulnerable |-> FALSE, vulnerable_timer |-> 0, in_house |-> TRUE, house_direction |-> 1, house_delay |-> 1] >>,
     ev |-> NoEv("scenario"),
     has_left |-> {0, 1, 2},
     came_from |-> << NoMove, <<8, 9>>, NoMove, NoMove >>]

ScTwoVulnerable ==
  [game_state |-> "PLAYING", level |-> 1,
     food_positions |-> FullFood \ {<<2, 17>>, <<3, 17>>, <<4, 12>>, <<4, 13>>, <<4, 14>>, <<4, 15>>, <<4, 16>>, <<4, 17>>, <<5, 12>>, <<5, 14>>, <<6, 10>>, <<6, 11>>, <<6, 12>>, <<6, 14>>, <<7, 10>>, <<7, 14>>, <<8, 10>>, <<8, 11>>, <<8, 14>>, <<9, 14>>, <<10, 14>>, <<11, 14>>, <<12, 14>>, <<13, 14>>, <<14, 14>>, <<14, 15>>, <<14, 16>>, <<14, 17>>, <<15, 17>>, <<16, 10>>, <<16, 11>>, <<16, 12>>, <<16, 13>>, <<16, 14>>, <<16, 16>>, <<17, 14>>, <<17, 16>>, <<18, 14>>, <<18, 15>>, <<18, 16>>},
     power_pellet_positions |-> {<<1, 1>>, <<16, 1>>},
     power_pellet_active |-> TRUE, power_pellet_timer |-> 492,
     ghost_release_timer |-> 294, ghosts_released |-> 3,
     pacman |-> [position |-> <<8, 10>>, lives |-> 3, score |-> 500, direction |-> "LEFT", next_direction |-> "RIGHT", move_delay |-> 0],
     ghosts |-> << [position |-> <<10, 8>>, move_counter |-> 14, last_direction |-> <<0, 0>>, is_vulnerable |-> TRUE, vulnerable_timer |-> 491, in_house |-> FALSE, house_direction |-> 1, house_delay |-> 0],
                 [position |-> <<8, 8>>, move_counter |-> 15, last_direction |-> <<0, 0>>, is_vulnerable |-> TRUE, vulnerable_timer |-> 491, in_house |-> FALSE, house_direction |-> 1, house_delay |-> 14],
                 [position |-> <<8, 8>>, move_counter |-> 15, last_direction |-> <<0, 0>>, is_vulnerable |-> TRUE, vulnerable_timer |-> 491, in_house |-> FALSE, house_direction |-> -1, house_delay |-> 14],
                 [position |-> <<11, 11>>, move_counter |-> 0, last_direction |-> <<0, 0>>, is_vulnerable |-> FALSE, vulnerable_timer |-> 0, in_house |-> TRUE, house_direction |-> 1, house_delay |-> 9] >>,
     ev |-> NoEv("scenario"),
     has_left |-> {0, 1, 2},
     came_from |-> << NoMove, <<8, 9>>, <<8, 9>>, NoMove >>]

ScTwoKillers ==
  [game_state |-> "PLAYING", level |-> 1,
     food_positions |-> FullFood \ {<<8, 6>>, <<9, 6>>, <<10, 6>>, <<11, 6>>, <<12, 6>>, <<13, 6>>, <<14, 6>>, <<14, 7>>, <<14, 8>>, <<15, 8>>, <<16, 8>>, <<16, 10>>, <<16, 11>>},
     power_pellet_positions |-> {<<1, 1>>, <<1, 17>>, <<16, 1>>, <<16, 17>>},
     power_pellet_active |-> FALSE, power_pellet_timer |-> 0,
     ghost_release_timer |-> 361, ghosts_released |-> 4,
     pacman |-> [position |-> <<8, 6>>, lives |-> 2, score |-> 130, direction |-> "UP", next_direction |-> "RIGHT", move_delay |-> 0],
     ghosts |-> << [position |-> <<10, 8>>, move_counter |-> 0, last_direction |-> <<0, 0>>, is_vulnerable |-> FALSE, vulnerable_timer |-> 0, in_house |-> FALSE, house_direction |-> 1, house_delay |-> 0],
                 [position |-> <<8, 8>>, move_counter |-> 1, last_direction |-> <<0, 0>>, is_vulnerable |-> FALSE, vulnerable_timer |-> 0, in_house |-> FALSE, house_direction |-> 1, house_delay |-> 14],
                 [position |-> <<8, 10>>, move_counter |-> 1, last_direction |-> <<0, 0>>, is_vulnerable |-> FALSE, vulnerable_timer |-> 0, in_house |-> FALSE, house_direction |-> -1, house_delay |-> 14],
                 [position |-> <<8, 8>>, move_counter |-> 1, last_direction |-> <<0, 0>>, is_vulnerable |-> FALSE, vulnerable_timer |-> 0, in_house |-> FALSE, house_direction |-> 1, house_delay |-> 14] >>,
     ev |-> NoEv("scenario"),
     has_left |-> {0, 1, 2, 3},
     came_from |-> << NoMove, <<8, 9>>, <<8, 9>>, <<8, 9>> >>]

ScTunnel ==
  [game_state |-> "PLAYING", level |-> 1,
     food_positions |-> FullFood \ {<<10, 2>>, <<10, 3>>, <<10, 4>>, <<10, 5>>, <<10, 6>>, <<11, 6>>, <<12, 6>>, <<13, 6>>, <<14, 6>>, <<14, 7>>, <<14, 8>>, <<15, 8>>, <<16, 8>>},
     power_pellet_positions |-> {<<1, 1>>, <<1, 17>>, <<16, 1>>, <<16, 17>>},
     power_pellet_active |-> FALSE, power_pellet_timer |-> 0,
     ghost_release_timer |-> 26, ghosts_released |-> 1,
     pacman |-> [position |-> <<10, 2>>, lives |-> 3, score |-> 130, direction |-> "LEFT", next_direction |-> "LEFT", move_delay |-> 0],
     ghosts |-> << [position |-> <<10, 8>>, move_counter |-> 6, last_direction |-> <<0, 0>>, is_vulnerable |-> FALSE, vulnerable_timer |-> 0, in_house |-> FALSE, house_direction |-> 1, house_delay |-> 0],
                 [position |-> <<11, 9>>, move_counter |-> 0, last_direction |-> <<0, 0>>, is_vulnerable |-> FALSE, vulnerable_timer |-> 0, in_house |-> TRUE, house_direction |-> 1, house_delay |-> 11],
                 [position |-> <<11, 10>>, move_counter |-> 0, last_direction |-> <<0, 0>>, is_vulnerable |-> FALSE, vulnerable_timer |-> 0, in_house |-> TRUE, house_direction |-> 1, house_delay |-> 11],
                 [position |-> <<11, 11>>, move_counter |-> 0, last_direction |-> <<0, 0>>, is_vulnerable |-> FALSE, vulnerable_timer |-> 0, in_house |-> TRUE, house_direction |-> 1, house_delay |-> 11] >>,
     ev |-> NoEv("scenario"),
     has_left |-> {0},
     came_from |-> << NoMove, NoMove, NoMove, NoMove >>]

ScLevelEndDot ==
  [game_state |-> "PLAYING", level |-> 1,
     food_positions |-> {<<4, 9>>},
     power_pellet_positions |-> {},
     power_pellet_active |-> TRUE, power_pellet_timer |-> 270,
     ghost_release_timer |-> 360, ghosts_released |-> 4,
     pacman |-> [position |-> <<3, 8>>, lives |-> 3, score |-> 2450, direction |-> "DOWN", next_direction |-> "DOWN", move_delay |-> 0],
     ghosts |-> << [position |-> <<10, 8>>, move_counter |-> 16, last_direction |-> <<0, 0>>, is_vulnerable |-> TRUE, vulnerable_timer |-> 269, in_house |-> FALSE, house_direction |-> 1, house_delay |-> 0],
                 [position |-> <<9, 9>>, move_counter |-> 17, last_direction |-> <<0, 0>>, is_vulnerable |-> FALSE, vulnerable_timer |-> 0, in_house |-> TRUE, house_direction |-> 1, house_delay |-> 9],
                 [position |-> <<10, 10>>, move_counter |-> 13, last_direction |-> <<0, 0>>, is_vulnerable |-> FALSE, vulnerable_timer |-> 0, in_house |-> TRUE, house_direction |-> 1, house_delay |-> 13],
                 [position |-> <<10, 6>>, move_counter |-> 17, last_direction |-> <<0, 0>>, is_vulnerable |-> FALSE, vulnerable_timer |-> 0, in_house |-> FALSE, house_direction |-> 1, house_delay |-> 14] >>,
     ev |-> NoEv("scenario"),
     has_left |-> {0, 1, 2, 3},
     came_from |-> << NoMove, NoMove, NoMove, <<9, 6>> >>]

ScLevelEndPower ==
  [game_state |-> "PLAYING", level |-> 1,
     food_positions |-> {},
     power_pellet_positions |-> {<<1, 1>>},
     power_pellet_active |-> TRUE, power_pellet_timer |-> 184,
     ghost_release_timer |-> 360, ghosts_released |-> 4,
     pacman |-> [position |-> <<1, 3>>, lives |-> 2, score |-> 2210, direction |-> "LEFT", next_direction |-> "LEFT", move_delay |-> 0],
     ghosts |-> << [position |-> <<10, 8>>, move_counter |-> 2, last_direction |-> <<0, 0>>, is_vulnerable |-> TRUE, vulnerable_timer |-> 183, in_house |-> FALSE, house_direction |-> 1, house_delay |-> 0],
                 [position |-> <<8, 9>>, move_counter |-> 3, last_direction |-> <<0, 0>>, is_vulnerable |-> TRUE, vulnerable_timer |-> 183, in_house |-> FALSE, house_direction |-> 1, house_delay |-> 14],
                 [position |-> <<11, 10>>, move_counter |-> 13, last_direction |-> <<0, 0>>, is_vulnerable |-> FALSE, vulnerable_timer |-> 0, in_house |-> TRUE, house_direction |-> -1, house_delay |-> 9],
                 [position |-> <<10, 6>>, move_counter |-> 3, last_direction |-> <<0, 0>>, is_vulnerable |-> FALSE, vulnerable_timer |-> 0, in_house |-> FALSE, house_direction |-> 1, house_delay |-> 14] >>,
     ev |-> NoEv("scenario"),
     has_left |-> {0, 1, 2, 3},
     came_from |-> << NoMove, <<8, 8>>, NoMove, <<11, 6>> >>]

ScWindowEnd ==
  [game_state |-> "PLAYING", level |-> 1,
     food_positions |-> FullFood \ {<<16, 10>>, <<16, 11>>, <<16, 12>>, <<16, 13>>, <<16, 14>>, <<16, 16>>, <<17, 14>>, <<17, 16>>, <<18, 14>>, <<18, 15>>, <<18, 16>>},
     power_pellet_positions |-> {<<1, 1>>, <<1, 17>>, <<16, 1>>},
     power_pellet_active |-> TRUE, power_pellet_timer |-> 4,
     ghost_release_timer |-> 360, ghosts_released |-> 4,
     pacman |-> [position |-> <<17, 16>>, lives |-> 3, score |-> 160, direction |-> "DOWN", next_direction |-> "UP", move_delay |-> 0],
     ghosts |-> << [position |-> <<10, 8>>, move_counter |-> 4, last_direction |-> <<0, 0>>, is_vulnerable |-> TRUE, vulnerable_timer |-> 3, in_house |-> FALSE, house_direction |-> 1, house_delay |-> 0],
                 [position |-> <<10, 13>>, move_counter |-> 5, last_direction |-> <<0, 0>>, is_vulnerable |-> TRUE, vulnerable_timer |-> 3, in_house |-> FALSE, house_direction |-> 1, house_delay |-> 14],
                 [position |-> <<8, 9>>, move_counter |-> 5, last_direction |-> <<0, 0>>, is_vulnerable |-> TRUE, vulnerable_timer |-> 3, in_house |-> FALSE, house_direction |-> -1, house_delay |-> 14],
                 [position |-> <<9, 12>>, move_counter |-> 5, last_direction |-> <<0, 0>>, is_vulnerable |-> TRUE, vulnerable_timer |-> 3, in_house |-> FALSE, house_direction |-> 1, house_delay |-> 14] >>,
     ev |-> NoEv("scenario"),
     has_left |-> {0, 1, 2, 3},
     came_from |-> << NoMove, <<10, 14>>, <<8, 8>>, <<10, 12>> >>]

ScPinkyChase ==
  [game_state |-> "PLAYING", level |-> 1,
     food_positions |-> FullFood \ {<<16, 6>>, <<16, 7>>, <<16, 8>>, <<17, 6>>, <<18, 6>>},
     power_pellet_positions |-> {<<1, 1>>, <<1, 17>>, <<16, 1>>, <<16, 17>>},
     power_pellet_active |-> FALSE, power_pellet_timer |-> 0,
     ghost_release_timer |-> 155, ghosts_released |-> 2,
     pacman |-> [position |-> <<18, 6>>, lives |-> 3, score |-> 50, direction |-> "DOWN", next_direction |-> "UP", move_delay |-> 1],
     ghosts |-> << [position |-> <<10, 8>>, move_counter |-> 15, last_direction |-> <<0, 0>>, is_vulnerable |-> FALSE, vulnerable_timer |-> 0, in_house |-> FALSE, house_direction |-> 1, house_delay |-> 0],
                 [position |-> <<8, 9>>, move_counter |-> 16, last_direction |-> <<0, 0>>, is_vulnerable |-> FALSE, vulnerable_timer |-> 0, in_house |-> FALSE, house_direction |-> 1, house_delay |-> 14],
                 [position |-> <<9, 10>>, move_counter |-> 0, last_direction |-> <<0, 0>>, is_vulnerable |-> FALSE, vulnerable_timer |-> 0, in_house |-> TRUE, house_direction |-> -1, house_delay |-> 5],
                 [position |-> <<9, 11>>, move_counter |-> 0, last_direction |-> <<0, 0>>, is_vulnerable |-> FALSE, vulnerable_timer |-> 0, in_house |-> TRUE, house_direction |-> -1, house_delay |-> 5] >>,
     ev |-> NoEv("scenario"),
     has_left |-> {0, 1},
     came_from |-> << NoMove, <<9, 9>>, NoMove, NoMove >>]

ScClydeNear ==
  [game_state |-> "PLAYING", level |-> 1,
     food_positions |-> FullFood \ {<<8, 4>>, <<9, 4>>, <<10, 4>>, <<10, 5>>, <<10, 6>>, <<11, 6>>, <<12, 6>>, <<13, 6>>, <<14, 6>>, <<14, 7>>, <<14, 8>>, <<15, 8>>, <<16, 8>>},
     power_pellet_positions |-> {<<1, 1>>, <<1, 17>>, <<16, 1>>, <<16, 17>>},
     power_pellet_active |-> FALSE, power_pellet_timer |-> 0,
     ghost_release_timer |-> 360, ghosts_released |-> 4,
     pacman |-> [position |-> <<8, 4>>, lives |-> 3, score |-> 130, direction |-> "UP", next_direction |-> "DOWN", move_delay |-> 1],
     ghosts |-> << [position |-> <<10, 8>>, move_counter |-> 15, last_direction |-> <<0, 0>>, is_vulnerable |-> FALSE, vulnerable_timer |-> 0, in_house |-> FALSE, house_direction |-> 1, house_delay |-> 0],
                 [position |-> <<3, 4>>, move_counter |-> 16, last_direction |-> <<0, 0>>, is_vulnerable |-> FALSE, vulnerable_timer |-> 0, in_house |-> FALSE, house_direction |-> 1, house_delay |-> 14],
                 [position |-> <<8, 11>>, move_counter |-> 16, last_direction |-> <<0, 0>>, is_vulnerable |-> FALSE, vulnerable_timer |-> 0, in_house |-> FALSE, house_direction |-> -1, house_delay |-> 14],
                 [position |-> <<8, 9>>, move_counter |-> 16, last_direction |-> <<0, 0>>, is_vulnerable |-> FALSE, vulnerable_timer |-> 0, in_house |-> FALSE, house_direction |-> 1, house_delay |-> 14] >>,
     ev |-> NoEv("scenario"),
     has_left |-> {0, 1, 2, 3},
     came_from |-> << NoMove, <<4, 4>>, <<8, 12>>, <<9, 9>> >>]

ScClydeFar ==
  [game_state |-> "PLAYING", level |-> 1,
     food_positions |-> FullFood \ {<<6, 1>>, <<6, 2>>, <<6, 3>>, <<6, 4>>, <<7, 4>>, <<8, 4>>, <<9, 4>>, <<10, 4>>, <<10, 5>>, <<10, 6>>, <<11, 6>>, <<12, 6>>, <<13, 6>>, <<14, 6>>, <<14, 7>>, <<14, 8>>, <<15, 8>>, <<16, 8>>},
     power_pellet_positions |-> {<<1, 1>>, <<1, 17>>, <<16, 1>>, <<16, 17>>},
     power_pellet_active |-> FALSE, power_pellet_timer |-> 0,
     ghost_release_timer |-> 360, ghosts_released |-> 4,
     pacman |-> [position |-> <<6, 2>>, lives |-> 3, score |-> 180, direction |-> "RIGHT", next_direction |-> "LEFT", move_delay |-> 1],
     ghosts |-> << [position |-> <<10, 8>>, move_counter |-> 15, last_direction |-> <<0, 0>>, is_vulnerable |-> FALSE, vulnerable_timer |-> 0, in_house |-> FALSE, house_direction |-> 1, house_delay |-> 0],
                 [position |-> <<5, 6>>, move_counter |-> 16, last_direction |-> <<0, 0>>, is_vulnerable |-> FALSE, vulnerable_timer |-> 0, in_house |-> FALSE, house_direction |-> 1, house_delay |-> 14],
                 [position |-> <<8, 11>>, move_counter |-> 16, last_direction |-> <<0, 0>>, is_vulnerable |-> FALSE, vulnerable_timer |-> 0, in_house |-> FALSE, house_direction |-> -1, house_delay |-> 14],
                 [position |-> <<8, 9>>, move_counter |-> 16, last_direction |-> <<0, 0>>, is_vulnerable |-> FALSE, vulnerable_timer |-> 0, in_house |-> FALSE, house_direction |-> 1, house_delay |-> 14] >>,
     ev |-> NoEv("scenario"),
     has_left |-> {0, 1, 2, 3},
     came_from |-> << NoMove, <<6, 6>>, <<8, 12>>, <<9, 9>> >>]

ScLastItemDeath ==
  [game_state |-> "PLAYING", level |-> 1,
     food_positions |-> {<<8, 9>>},
     power_pellet_positions |-> {},
     power_pellet_active |-> FALSE, power_pellet_timer |-> 0,
     ghost_release_timer |-> 362, ghosts_released |-> 4,
     pacman |-> [position |-> <<8, 7>>, lives |-> 1, score |-> 2450, direction |-> "RIGHT", next_direction |-> "RIGHT", move_delay |-> 0],
     ghosts |-> << [position |-> <<10, 8>>, move_counter |-> 4, last_direction |-> <<0, 0>>, is_vulnerable |-> FALSE, vulnerable_timer |-> 0, in_house |-> FALSE, house_direction |-> 1, house_delay |-> 0],
                 [position |-> <<8, 9>>, move_counter |-> 5, last_direction |-> <<0, 0>>, is_vulnerable |-> FALSE, vulnerable_timer |-> 0, in_house |-> FALSE, house_direction |-> -1, house_delay |-> 14],
                 [position |-> <<8, 9>>, move_counter |-> 19, last_direction |-> <<0, 0>>, is_vulnerable |-> FALSE, vulnerable_timer |-> 0, in_house |-> FALSE, house_direction |-> 1, house_delay |-> 10],
                 [position |-> <<8, 9>>, move_counter |-> 5, last_direction |-> <<0, 0>>, is_vulnerable |-> FALSE, vulnerable_timer |-> 0, in_house |-> FALSE, house_direction |-> 1, house_delay |-> 14] >>,
     ev |-> NoEv("scenario"),
     has_left |-> {0, 1, 2, 3},
     came_from |-> << NoMove, <<9, 9>>, <<9, 9>>, <<9, 9>> >>]

Scenarios ==
  { ScRelease1,
    ScRelease2,
    ScRelease3,
    ScDeathEarly,
    ScDeathLate,
    ScLastLife,
    ScPower,
    ScCapture,
    ScMixed,
    ScTwoVulnerable,
    ScTwoKillers,
    ScTunnel,
    ScLevelEndDot,
    ScLevelEndPower,
    ScWindowEnd,
    ScPinkyChase,
    ScClydeNear,
    ScClydeFar,
    ScLastItemDeath }

\* A scenario as the current state
Resume(sc) ==
  /\ game_state = sc.game_state
  /\ level = sc.level
  /\ food_positions = sc.food_positions
  /\ power_pellet_positions = sc.power_pellet_positions
  /\ power_pellet_active = sc.power_pellet_active
  /\ power_pellet_timer = sc.power_pellet_timer
  /\ ghost_release_timer = sc.ghost_release_timer
  /\ ghosts_released = sc.ghosts_released
  /\ pacman = << sc.pacman >>
  /\ ghosts = sc.ghosts
  /\ ev = sc.ev
  /\ has_left = sc.has_left
  /\ came_from = sc.came_from
  /\ ticks = 0
  /\ NoRanking

Init == InitialState \/ \E sc \in Scenarios : Resume(sc)

\* start_new_game(), the HUD's play callback (main.py start_game)
StartNewGame ==
  /\ Becomes(start_new_game([Self EXCEPT !.ev = NoEv("start_new_game")]))
  /\ UNCHANGED ticks

\* handle_input storing the direction while PAUSED as it does while PLAYING
HandleInputQueuesWhilePaused(direction) ==
  IF game_state \in {"PLAYING", "PAUSED"}
  THEN IF direction = "PAUSE"
       THEN /\ game_state' = IF game_state = "PLAYING" THEN "PAUSED" ELSE "PLAYING"
            /\ UNCHANGED << level, food_positions, power_pellet_positions,
                            power_pellet_active, power_pellet_timer,
                            ghost_release_timer, ghosts_released, pacman,
                            ghosts, ev, has_left, came_from,
                  ticks >>
       ELSE /\ pacman' = << [pacman[1] EXCEPT !.next_direction = direction] >>
            /\ UNCHANGED << game_state, level, food_positions,
                            power_pellet_positions, power_pellet_active,
                            power_pellet_timer, ghost_release_timer,
                            ghosts_released, ghosts, ev, has_left, came_from,
                  ticks >>
  ELSE UNCHANGED vars

\* GameCore.handle_input(direction)
HandleInput(direction) ==
  IF game_state = "PLAYING"
  THEN IF direction = "PAUSE"
       THEN /\ game_state' = "PAUSED"
            /\ UNCHANGED << level, food_positions, power_pellet_positions,
                            power_pellet_active, power_pellet_timer,
                            ghost_release_timer, ghosts_released, pacman,
                            ghosts, ev, has_left, came_from,
                  ticks >>
       ELSE /\ pacman' = << [pacman[1] EXCEPT !.next_direction = direction] >>
            /\ UNCHANGED << game_state, level, food_positions,
                            power_pellet_positions, power_pellet_active,
                            power_pellet_timer, ghost_release_timer,
                            ghosts_released, ghosts, ev, has_left, came_from,
                  ticks >>
  ELSE IF game_state = "PAUSED" /\ direction = "PAUSE"
  THEN /\ game_state' = "PLAYING"
       /\ UNCHANGED << level, food_positions, power_pellet_positions,
                       power_pellet_active, power_pellet_timer,
                       ghost_release_timer, ghosts_released, pacman,
                       ghosts, ev, has_left, came_from,
                  ticks >>
  ELSE UNCHANGED vars

\* update() returning early in MENU and GAME_OVER only
UpdateRunsWhenPaused ==
  IF game_state \notin {"PLAYING", "PAUSED"}
  THEN /\ ev' = [ev EXCEPT !.op = "update_ignored"]
       /\ UNCHANGED << game_state, level, food_positions,
                       power_pellet_positions, power_pellet_active,
                       power_pellet_timer, ghost_release_timer,
                       ghosts_released, pacman, ghosts, has_left, came_from,
                  ticks >>
  ELSE /\ ticks < MaxTicks
       /\ \E g \in update(Self) : Becomes(g)
       /\ ticks' = ticks + 1

\* GameCore.update(): returns at once unless the phase is PLAYING
Update ==
  IF game_state # "PLAYING"
  THEN /\ ev' = [ev EXCEPT !.op = "update_ignored"]
       /\ UNCHANGED << game_state, level, food_positions,
                       power_pellet_positions, power_pellet_active,
                       power_pellet_timer, ghost_release_timer,
                       ghosts_released, pacman, ghosts, has_left, came_from,
                  ticks >>
  ELSE /\ ticks < MaxTicks
       /\ \E g \in update(Self) : Becomes(g)
       /\ ticks' = ticks + 1

\* main.py back_to_menu: game_state = MENU
BackToMenu ==
  /\ game_state' = "MENU"
  /\ UNCHANGED << level, food_positions, power_pellet_positions,
                  power_pellet_active, power_pellet_timer,
                  ghost_release_timer, ghosts_released, pacman, ghosts,
                  ev, has_left, came_from,
                  ticks >>

\* main.py, the space key in GAME_OVER: a score above 0 is handed to
\* add_score with the level and the player's name, then game_state = MENU
GameOverKey ==
  /\ game_state = "GAME_OVER"
  /\ IF pacman # << >> /\ pacman[1].score > 0
     THEN \E name \in Names : AddScore(pacman[1].score, level, name)
     ELSE UNCHANGED scorevars
  /\ game_state' = "MENU"
  /\ UNCHANGED << level, food_positions, power_pellet_positions,
                  power_pellet_active, power_pellet_timer,
                  ghost_release_timer, ghosts_released, pacman, ghosts,
                  ev, has_left, came_from,
                  ticks >>

Next ==
  \/ StartNewGame /\ UNCHANGED scorevars
  \/ \E direction \in Inputs : HandleInput(direction) /\ UNCHANGED scorevars
  \/ Update /\ UNCHANGED scorevars
  \/ BackToMenu /\ UNCHANGED scorevars
  \/ GameOverKey

Spec == Init /\ [][Next]_vars

\* ------------------------------------------- the entity classes as written
\* GameCore._setup_level with the objects PacMan.__init__ and Ghost.__init__
\* build: the player has no move_delay, and only ghost 0 has in_house (set by
\* "self.ghosts[0].in_house = False")
setup_level_src(g) ==
  [g EXCEPT
     !.food_positions = FullFood,
     !.power_pellet_positions = get_power_pellets,
     !.pacman = PacManInit(PACMAN_SPAWN, 3),
     !.ghosts = << GhostInit(GHOST_SPAWN[1]) @@ [in_house |-> FALSE],
                   GhostInit(GHOST_SPAWN[2]),
                   GhostInit(GHOST_SPAWN[3]), GhostInit(GHOST_SPAWN[4]) >>,
     !.ghost_release_timer = 0,
     !.ghosts_released = 1,
     !.has_left = {0},
     !.came_from = NoSteps ]

\* GameCore.start_new_game over these objects
start_new_game_src(g) ==
  setup_level_src([g EXCEPT !.level = 1,
                            !.game_state = "PLAYING",
                            !.power_pellet_active = FALSE,
                            !.power_pellet_timer = 0,
                            !.ghosts_released = 0])

\* GameCore.update in phase PLAYING over these objects: after the window
\* countdown, "self.pacman.move_delay += 1" reads an attribute the player
\* object does not have and the call ends there with AttributeError (with
\* that attribute present, the ghost loop's "ghost.in_house" would be the
\* next read to fail, on a ghost other than ghost 0)
update_src(g) ==
  LET g1 == power_pellet_step([g EXCEPT !.ev = NoEv("update")])
  IN IF "move_delay" \notin DOMAIN g1.pacman
     THEN { [g1 EXCEPT !.ev.op = "AttributeError"] }
     ELSE IF \E k \in DOMAIN g1.ghosts : "in_house" \notin DOMAIN g1.ghosts[k]
     THEN { [update_ghost_release(update_pacman_movement(g1))
               EXCEPT !.ev.op = "AttributeError"] }
     ELSE update(g)

StartNewGameSrc ==
  /\ Becomes(start_new_game_src([Self EXCEPT !.ev = NoEv("start_new_game")]))
  /\ UNCHANGED ticks

\* update() as called by a caller that survives the exception
UpdateSrc ==
  IF game_state # "PLAYING"
  THEN /\ ev' = [ev EXCEPT !.op = "update_ignored"]
       /\ UNCHANGED << game_state, level, food_positions,
                       power_pellet_positions, power_pellet_active,
                       power_pellet_timer, ghost_release_timer,
                       ghosts_released, pacman, ghosts, has_left, came_from,
                  ticks >>
  ELSE /\ ticks < MaxTicks
       /\ \E g \in update_src(Self) : Becomes(g)
       /\ ticks' = ticks + 1

NextSrc ==
  \/ StartNewGameSrc /\ UNCHANGED scorevars
  \/ \E direction \in Inputs : HandleInput(direction) /\ UNCHANGED scorevars
  \/ UpdateSrc /\ UNCHANGED scorevars
  \/ BackToMenu /\ UNCHANGED scorevars

\* The program with the entity classes of src/entities as they are
SpecSrc == InitialState /\ [][NextSrc]_vars

\* ------------------------------------------- the score manager on its own
\* add_score called with any score and name, up to MaxAdds times
AddAnyScore ==
  /\ BagCardinality(added) < MaxAdds
  /\ \E score \in ScoreValues, name \in Names : AddScore(score, 1, name)
  /\ UNCHANGED << game_state, level, food_positions, power_pellet_positions,
                  power_pellet_active, power_pellet_timer,
                  ghost_release_timer, ghosts_released, pacman, ghosts,
                  ev, has_left, came_from,
                  ticks >>

\* A ScoreManager created with an empty ranking and driven by add_score calls
SpecScores == InitialState /\ [][AddAnyScore]_vars

\* ------------------------------------------------------------- properties
\* A ghost that _check_ghost_collisions finds out of the house and on the
\* player's cell (k is the index in ev.col.ghosts)
OnPlayerCell(k) ==
  /\ ~ev.col.ghosts[k].in_house
  /\ ev.col.ghosts[k].position = ev.col.position

\* C1: after every update(), whatever the inputs, the player stands on an
\* in-bounds cell of type PATH (never a wall, the ghost house or its door).
C1_PlayerOnPath ==
  pacman # << >> =>
    /\ is_valid_position(pacman[1].position[1], pacman[1].position[2])
    /\ Cell(pacman[1].position) = PATH

\* an update() moved the player through the tunnel to the right endpoint
C1_Witness ==
  /\ pacman # << >>
  /\ ev.op = "update" /\ ev.move_tick
  /\ pacman[1].position = TUNNEL_RIGHT /\ pacman[1].direction = "LEFT"

\* C2: when a level is completed and reinitialized, score and lives are the
\* same after the reinitialization as before it.
C2_LevelUpKeepsScoreAndLives ==
  (ev.op = "update" /\ ev.level_up) =>
    /\ pacman[1].score = ev.before_level_up.score
    /\ pacman[1].lives = ev.before_level_up.lives

\* C3: across every update() that does not reinitialize the level, the pellet
\* set and the power-pellet set only lose coordinates.
C3_PelletsOnlyShrink ==
  [][ (ticks' = ticks + 1 /\ level' = level) =>
        /\ food_positions' \subseteq food_positions
        /\ power_pellet_positions' \subseteq power_pellet_positions ]_vars

\* an update() in which a dot was eaten and the level went on
C3_Witness ==
  /\ ev.op = "update" /\ ev.ate = "dot" /\ ~ev.level_up
  /\ food_positions # {} /\ food_positions # FullFood

\* C4: every non-housed VULNERABLE ghost that is on the player's cell at
\* collision resolution is captured by that update() (housed again, at its
\* own home coordinate, no longer vulnerable), and the score grows by exactly
\* 200 per capture.
C4_VulnerableOnCellIsCaptured ==
  ev.op = "update" =>
    LET caught == { k \in DOMAIN ev.col.ghosts :
                      OnPlayerCell(k) /\ ev.col.ghosts[k].is_vulnerable }
    IN caught # {} =>
         /\ \A k \in caught : /\ ghosts[k].in_house
                              /\ ~ghosts[k].is_vulnerable
                              /\ ghosts[k].position = GHOST_SPAWN[k]
         /\ pacman[1].score = ev.col.score + GHOST_POINTS * Cardinality(caught)

\* C5: if a non-housed, non-vulnerable ghost is on the player's cell at
\* collision resolution, that update() takes exactly one life.
C5_KillerOnCellCostsOneLife ==
  ev.op = "update" =>
    ( (\E k \in DOMAIN ev.col.ghosts :
         OnPlayerCell(k) /\ ~ev.col.ghosts[k].is_vulnerable)
      => pacman[1].lives = ev.col.lives - 1 )

\* The item eaten by this update() was the last one of the level
EatsLastItem ==
  /\ ticks' = ticks + 1
  /\ Cardinality(food_positions \cup power_pellet_positions) = 1
  /\ ev'.ate # "none"

\* C6 as stated: when the pellet sets become empty the level number is
\* incremented by the NEXT update() (the update() that empties them leaves
\* them empty and the level number as it is).
C6_LevelUpOnNextUpdate ==
  [][ EatsLastItem =>
        /\ level' = level
        /\ food_positions' = {} /\ power_pellet_positions' = {} ]_vars

\* C6 amended: the update() that consumes the last item increments the level
\* number by exactly 1 itself, and both pellet sets of the new level are
\* non-empty after it.
C6_LevelUpInSameUpdate ==
  [][ EatsLastItem =>
        /\ level' = level + 1
        /\ food_positions' # {} /\ power_pellet_positions' # {} ]_vars

\* the update() that ate the last item of level 1
C6_Witness ==
  /\ ev.op = "update" /\ ev.level_up /\ ev.ate # "none"
  /\ level = 2

\* C7: on a life loss with lives remaining the player is on its start
\* coordinate, every ghost is on its home coordinate and not vulnerable, and
\* the release schedule restarts from the life loss: its first offset being
\* 120 ticks, the update() that follows the life loss releases no ghost.
C7_LifeLossRestartsReleaseSchedule ==
  [][ /\ (ticks' = ticks + 1 /\ ev'.died /\ ev'.col.lives > 1 /\ ~ev'.level_up) =>
           /\ pacman'[1].position = PACMAN_SPAWN
           /\ \A k \in DOMAIN ghosts' : /\ ghosts'[k].position = GHOST_SPAWN[k]
                                        /\ ~ghosts'[k].is_vulnerable
      /\ (ticks' = ticks + 1 /\ ev.op = "update" /\ ev.died /\ ev.col.lives > 1
            /\ ~ev.level_up) =>
           ev'.released = {} ]_vars

\* C8: the life loss that leaves no life sets GAME_OVER in the same update(),
\* and in GAME_OVER neither update() nor handle_input changes any field.
C8_GameOverIsFinal ==
  [][ /\ (ticks' = ticks + 1 /\ ev'.died /\ ev'.col.lives = 1) =>
           game_state' = "GAME_OVER"
      /\ (game_state = "GAME_OVER" /\ (Update \/ \E d \in Inputs : HandleInput(d))) =>
           UNCHANGED simvars ]_vars

\* update() was called after the last life was lost
C8_Witness ==
  /\ game_state = "GAME_OVER" /\ ev.op = "update_ignored" /\ ev.died
  /\ pacman[1].lives = 0

\* C9: ghost N has never left the house, since the last level setup or
\* life-loss reset, unless ghost N-1 has.
C9_ReleaseOrder ==
  /\ \A n \in has_left : n = 0 \/ (n - 1) \in has_left
  /\ \A k \in DOMAIN ghosts : ~ghosts[k].in_house => (k - 1) \in has_left

\* ghosts 1 and 2 have left the house, ghost 3 has not
C9_Witness ==
  /\ ev.op = "update" /\ ev.released = {2}
  /\ has_left = {0, 1, 2} /\ ghosts[4].in_house

\* C10: update() in MENU, PAUSED or GAME_OVER changes no field of the
\* simulation.
C10_UpdateOutsidePlayingIsNoOp ==
  [][ (game_state # "PLAYING" /\ Update) => UNCHANGED simvars ]_vars

\* update() was called while paused in the middle of a level
C10_Witness ==
  /\ game_state = "PAUSED" /\ ev.op = "update_ignored"
  /\ food_positions # {} /\ food_positions # FullFood

\* The PATH cells of the template that are neither the player spawn, nor a
\* ghost spawn, nor a power-pellet cell (as an enumerated set)
TemplateDots ==
  { q : q \in { p \in (0 .. DEFAULT_ROWS - 1) \X (0 .. DEFAULT_COLS - 1) :
                  /\ Cell(p) = PATH
                  /\ p # PACMAN_SPAWN
                  /\ \A k \in DOMAIN GHOST_SPAWN : p # GHOST_SPAWN[k]
                  /\ p \notin POWER_PELLET_POSITIONS } }

\* C11: start_new_game(), from any state, gives phase PLAYING, score 0, 3
\* lives, level 1, a dot on every PATH cell of the template except the player
\* spawn, the ghost spawns and the power-pellet cells, and the template's four
\* power pellets.
C11_StartNewGameResets ==
  [][ (ev'.op = "start_new_game" /\ StartNewGame) =>
        /\ game_state' = "PLAYING"
        /\ level' = 1
        /\ pacman'[1].score = 0 /\ pacman'[1].lives = 3
        /\ food_positions' = TemplateDots
        /\ power_pellet_positions' = POWER_PELLET_POSITIONS
        /\ Cardinality(power_pellet_positions') = 4 ]_vars

\* start_new_game() was called after play had gone on (updates were made) and
\* nothing has been done since
C11_Witness ==
  /\ ev.op = "start_new_game" /\ ticks > 0
  /\ game_state = "PLAYING" /\ level = 1
  /\ food_positions = FullFood /\ pacman[1].next_direction = None

\* C12: an update() in which the player moves onto a dot (and the level goes
\* on) adds exactly 10 to the score, removes that coordinate from the pellet
\* set and nothing else from either set, and does to the ghosts and to the
\* vulnerability window exactly what the same update() does when the cell
\* holds no dot.
C12_DotPickup ==
  [][ (ticks' = ticks + 1 /\ ev'.ate = "dot" /\ ~ev'.level_up) =>
        LET pos == ev'.col.position
            without == [Self EXCEPT !.food_positions = @ \ {pos}]
        IN /\ pos \in food_positions
           /\ food_positions' = food_positions \ {pos}
           /\ power_pellet_positions' = power_pellet_positions
           /\ ev'.col.score = pacman[1].score + DOT_POINTS
           /\ \E h \in update(without) :
                /\ h.ev.ate = "none"
                /\ h.ghosts = ghosts'
                /\ h.ghosts_released = ghosts_released'
                /\ h.power_pellet_active = power_pellet_active'
                /\ h.power_pellet_timer = power_pellet_timer' ]_vars

\* a dot was eaten while a vulnerability window was running, with a
\* vulnerable ghost on the field and a ghost in the house
C12_Witness ==
  /\ ev.op = "update" /\ ev.ate = "dot" /\ ~ev.level_up
  /\ power_pellet_active
  /\ \E k \in DOMAIN ghosts : ghosts[k].is_vulnerable
  /\ \E k \in DOMAIN ghosts : ghosts[k].in_house

\* C13: an update() in which the player moves onto a power pellet removes
\* that pellet, adds exactly 50 to the score, starts the shared window at its
\* full duration, and makes VULNERABLE exactly the ghosts that were out of
\* the house when the pellet was eaten (a housed ghost is not made
\* vulnerable); the vulnerable ghosts all carry the same countdown.
C13_PowerPelletPickup ==
  [][ (ticks' = ticks + 1 /\ ev'.ate = "power") =>
        LET pos == ev'.col.position
        IN /\ pos \in power_pellet_positions
           /\ ~ev'.level_up =>
                /\ power_pellet_positions' = power_pellet_positions \ {pos}
                /\ food_positions' = food_positions
           /\ ev'.col.score = pacman[1].score + POWER_PELLET_POINTS
           /\ power_pellet_active'
           /\ power_pellet_timer' = power_pellet_duration
           /\ \A k \in DOMAIN ghosts :
                ev'.col.ghosts[k].is_vulnerable <=> ~ghosts[k].in_house
           /\ \A j, k \in DOMAIN ghosts' :
                (ghosts'[j].is_vulnerable /\ ghosts'[k].is_vulnerable) =>
                  ghosts'[j].vulnerable_timer = ghosts'[k].vulnerable_timer ]_vars

\* a power pellet was eaten with two ghosts on the field and two in the house
C13_Witness ==
  /\ ev.op = "update" /\ ev.ate = "power" /\ ~ev.level_up
  /\ ghosts[1].is_vulnerable /\ ghosts[2].is_vulnerable
  /\ ghosts[1].vulnerable_timer = ghosts[2].vulnerable_timer
  /\ ghosts[3].in_house /\ ~ghosts[3].is_vulnerable
  /\ ghosts[4].in_house /\ ~ghosts[4].is_vulnerable

\* C14: while the window is running and no further power pellet is eaten,
\* every update() takes one tick off the window countdown; the update() that
\* brings it to 0 closes the window and leaves no ghost VULNERABLE, and no
\* ghost is VULNERABLE once the window is closed (whether or not a capture
\* took place).
C14_WindowExpires ==
  [][ /\ (ticks' = ticks + 1 /\ power_pellet_active /\ ev'.ate # "power") =>
           IF power_pellet_timer > 1
           THEN power_pellet_active' /\ power_pellet_timer' = power_pellet_timer - 1
           ELSE ~power_pellet_active'
      /\ ~power_pellet_active' =>
           \A k \in DOMAIN ghosts' : ~ghosts'[k].is_vulnerable ]_vars

\* the window opened by a power pellet of level 1 has run out
C14_Witness ==
  /\ ev.op = "update" /\ level = 1
  /\ power_pellet_positions # POWER_PELLET_POSITIONS
  /\ ~power_pellet_active /\ power_pellet_timer = 0
  /\ \A k \in DOMAIN ghosts : ~ghosts[k].is_vulnerable /\ ~ghosts[k].in_house

\* C15: a direction other than UP, DOWN, LEFT, RIGHT and PAUSE handed to
\* handle_input is ignored: the call changes no field of the simulation (so
\* that no later update() can differ from a run without it).
C15_MalformedInputIgnored ==
  [][ (\E d \in Inputs \ {"UP", "DOWN", "LEFT", "RIGHT", "PAUSE"} : HandleInput(d))
        => UNCHANGED simvars ]_vars

\* C16: PAUSE in PLAYING gives PAUSED and PAUSE in PAUSED gives PLAYING, each
\* changing nothing but the phase; while PAUSED every update() and every
\* direction input leaves all fields as they are (no timer runs, no direction
\* is queued), so that the state after resuming is the state before pausing.
C16_PauseRoundTrip ==
  [][ /\ HandleInput("PAUSE") =>
           /\ game_state = "PLAYING" => game_state' = "PAUSED"
           /\ game_state = "PAUSED" => game_state' = "PLAYING"
           /\ UNCHANGED << level, food_positions, power_pellet_positions,
                           power_pellet_active, power_pellet_timer,
                           ghost_release_timer, ghosts_released, pacman, ghosts >>
      /\ ( /\ game_state = "PAUSED"
           /\ Update \/ \E d \in Inputs \ {"PAUSE"} : HandleInput(d) )
         => UNCHANGED simvars ]_vars

\* paused while a vulnerability window is running and a direction is queued;
\* update() was called during the pause
C16_Witness ==
  /\ game_state = "PAUSED" /\ ev.op = "update_ignored"
  /\ power_pellet_active /\ power_pellet_timer < power_pellet_duration
  /\ pacman[1].next_direction # None
  /\ pacman[1].next_direction # pacman[1].direction

\* C17: from start_new_game() on, no update() call in phase PLAYING raises:
\* every attribute the tick reads on the player and the ghosts is defined.
\* (Checked on SpecSrc, the entity classes as written.)
C17_UpdateNeverRaises ==
  ev.op # "AttributeError"

\* C18: a ghost that is housed (waiting for its release, or captured and sent
\* home) cannot collide with the player: it never shares the player's cell,
\* collision resolution captures no ghost that is housed when it starts, and
\* it takes a life only when a ghost that is out of the house and not
\* vulnerable is on the player's cell.
C18_HousedGhostCannotCollide ==
  /\ pacman # << >> =>
       \A k \in DOMAIN ghosts :
         ghosts[k].in_house => ghosts[k].position # pacman[1].position
  /\ ev.op = "update" =>
       /\ \A k \in DOMAIN ev.col.ghosts :
            ev.col.ghosts[k].in_house =>
              /\ (k - 1) \notin ev.captured
              /\ ev.col.ghosts[k].position # ev.col.position
       /\ ev.died =>
            \E k \in DOMAIN ev.col.ghosts :
              OnPlayerCell(k) /\ ~ev.col.ghosts[k].is_vulnerable

\* an update() resolved collisions while a captured ghost sat in the house
\* (housed although it had left it) and nothing happened to the player
C18_Witness ==
  /\ ev.op = "update" /\ ev.captured = {} /\ ~ev.died
  /\ \E k \in DOMAIN ghosts :
       /\ ghosts[k].in_house /\ (k - 1) \in has_left
       /\ ev.col.ghosts[k].in_house
       /\ ghosts[k].position[1] \in {GHOST_SPAWN[k][1] - 1, GHOST_SPAWN[k][1], GHOST_SPAWN[k][1] + 1}

\* C19: once a level is set up (GameCore.maze is generated with the player
\* and the ghosts), the maze grid is rectangular and every cell of its first
\* and last row and of its first and last column is WALL (the two tunnel
\* endpoints, through which an entity may leave one side and enter the
\* other, are not counted here).
C19_BorderIsWall ==
  pacman # << >> =>
    /\ Len(ORIGINAL_PACMAN_MAZE) = DEFAULT_ROWS
    /\ \A r \in DOMAIN ORIGINAL_PACMAN_MAZE :
         Len(ORIGINAL_PACMAN_MAZE[r]) = DEFAULT_COLS
    /\ \A p \in (0 .. DEFAULT_ROWS - 1) \X (0 .. DEFAULT_COLS - 1) :
         ( /\ p[1] \in {0, DEFAULT_ROWS - 1} \/ p[2] \in {0, DEFAULT_COLS - 1}
           /\ p \notin {TUNNEL_LEFT, TUNNEL_RIGHT} )
         => Cell(p) = WALL

\* C20: a captured ghost is released again by a later update() of the same
\* level.  _update_ghost_release lets a housed ghost out only while its index
\* is not below ghosts_released, so the claim needs every capture to leave
\* the captured ghost ahead of that counter.
C20_CapturedGhostIsReleasedAgain ==
  [][ (ticks' = ticks + 1 /\ ~ev'.died /\ ~ev'.level_up) =>
        \A i \in ev'.captured :
          ghosts'[i + 1].in_house => i >= ghosts_released' ]_vars

\* ---------------------------------------------------------- ghost movement
\* This update() runs the move of ghost k (list position k) past its frame
\* gate: the ghost was out of the house when update() was called, so the loop
\* of lines 163-171 calls its move(), and move_counter reaches 20.  The
\* ghost's cell when move() starts is ghosts[k].position, the cell it has
\* when the loop is over is ev'.col.ghosts[k].position, and the player's
\* cell during the loop is ev'.col.position.
DecisionTick(k) ==
  /\ ticks' = ticks + 1
  /\ k \in DOMAIN ghosts
  /\ ~ghosts[k].in_house
  /\ ghosts[k].move_counter + 1 >= GHOST_MOVE_FRAMES

\* Ghost k is in CHASE when its move() of this update() runs: it was not
\* vulnerable before the call and the player takes no power pellet in it
InChase(k) == ~ghosts[k].is_vulnerable /\ ev'.ate # "power"

\* C21: every adversary enters the field, the first-released one (Blinky,
\* out of the house from level start) included.  Nothing but its own move()
\* takes an adversary that is out of the house to a PATH cell, so entering
\* the field requires that an adversary standing off the PATH cells (on the
\* exit coordinate, or on Blinky's starting cell) leaves its cell when its
\* decision tick comes.
C21_AdversaryOffPathStepsOut ==
  [][ \A k \in 1..4 :
        (DecisionTick(k) /\ Cell(ghosts[k].position) # PATH)
          => ev'.col.ghosts[k].position # ghosts[k].position ]_vars

\* C22: runs are reproducible.  Two runs that took the same inputs and
\* update() calls from start_new_game() are in the same state; whatever the
\* next update() call makes of that state in one run (the step taken here),
\* it makes of it in the other (any g that update() can return).
C22_RunsAreReproducible ==
  [][ ticks' = ticks + 1 =>
        \A g \in update(Self) : g.ghosts = ghosts' /\ g.pacman = pacman'[1] ]_vars

\* Entries of the ranking, and scores handed to add_score, that are at least v
RankedAtLeast(v) == Cardinality({ i \in 1..Len(scores) : scores[i].score >= v })
AddedAtLeast(v) ==
  BagCardinality([ x \in { y \in DOMAIN added : y >= v } |-> added[x] ])
Min(a, b) == IF a < b THEN a ELSE b

\* C23: after any sequence of add_score calls the ranking has at most 10
\* entries, in descending order of score, and holds the 10 highest scores
\* ever added: for every score v, it has as many entries of score v or more
\* as were added, up to 10.
C23_RankingIsTopTen ==
  score_ev.op = "add_score" =>
    /\ Len(scores) <= RANKING_SIZE
    /\ \A i \in 1..(Len(scores) - 1) : scores[i].score >= scores[i + 1].score
    /\ \A v \in DOMAIN added :
         RankedAtLeast(v) = Min(RANKING_SIZE, AddedAtLeast(v))

\* An eleventh score entered a full ranking and pushed a lower one out
C23_Witness ==
  /\ score_ev.op = "add_score" /\ score_ev.retained
  /\ BagCardinality(added) > RANKING_SIZE
  /\ Len(scores) = RANKING_SIZE
  /\ \E v \in DOMAIN added : \A i \in 1..Len(scores) : scores[i].score > v

\* C24: on a player move tick the queued direction is tried first, on the
\* neighbour cell it points to; if that cell is not traversable the current
\* facing is tried, on the cell it leads to through the tunnel rule; if
\* neither is traversable the player stays.  Only the first case changes the
\* facing, and in the other two the queued direction is kept.
C24_QueuedThenFacing ==
  [][ (ticks' = ticks + 1 /\ ev'.move_tick /\ ~ev'.died /\ ~ev'.level_up) =>
        LET pm     == pacman[1]
            queued == pm.next_direction
            nxt    == Step(pm.position, direction_map(queued))
            cur    == Step(pm.position, direction_map(pm.direction))
            ahead  == handle_tunnel_teleport(cur[1], cur[2])
        IN IF queued # None /\ can_pacman_move_to(nxt[1], nxt[2])
           THEN /\ pacman'[1].position = nxt
                /\ pacman'[1].direction = queued
           ELSE IF can_pacman_move_to(ahead[1], ahead[2])
           THEN /\ pacman'[1].position = ahead
                /\ pacman'[1].direction = pm.direction
                /\ pacman'[1].next_direction = queued
           ELSE /\ pacman'[1].position = pm.position
                /\ pacman'[1].direction = pm.direction
                /\ pacman'[1].next_direction = queued ]_vars

\* A move tick on which the queued direction was blocked and the player
\* went on along its facing, onto a pellet, with the direction still queued
C24_Witness ==
  /\ ev.op = "update" /\ ev.move_tick /\ ~ev.died /\ ~ev.level_up
  /\ ev.ate = "dot"
  /\ pacman[1].next_direction \in {"UP", "DOWN", "LEFT", "RIGHT"} \ {pacman[1].direction}

LegalNeighbours(p) ==
  { j \in 1..4 : can_ghost_move_to(Step(p, directions[j])[1], Step(p, directions[j])[2]) }

\* The step rule: the legal neighbour of p nearest to target in Manhattan
\* distance, the first such in scan order; p itself when none is legal
StepRule(p, target) ==
  IF LegalNeighbours(p) = {} THEN p
  ELSE LET best == CHOOSE j \in LegalNeighbours(p) :
                     /\ \A m \in LegalNeighbours(p) :
                          Manhattan(Step(p, directions[j]), target)
                            <= Manhattan(Step(p, directions[m]), target)
                     /\ \A m \in LegalNeighbours(p) :
                          m < j => Manhattan(Step(p, directions[j]), target)
                                     < Manhattan(Step(p, directions[m]), target)
       IN Step(p, directions[best])

\* The target of ghost k in this update(): _get_ghost_target is called in the
\* ghost loop, after the player has moved
TargetInLoop(k) ==
  get_ghost_target([Self EXCEPT !.pacman.position = ev'.col.position,
                                !.pacman.direction = pacman'[1].direction], k)

\* C26: on a decision tick in CHASE an adversary steps to the neighbour,
\* among those legal for adversary traversal (PATH, ghost house or ghost
\* door), that is nearest to its target, ties broken in the order up, down,
\* left, right, and stays when no neighbour is legal.
C26_StepRuleOverLegalNeighbours ==
  [][ \A k \in 1..4 :
        (DecisionTick(k) /\ InChase(k) /\ ~ev'.died /\ ~ev'.level_up)
          => ev'.col.ghosts[k].position = StepRule(ghosts[k].position, TargetInLoop(k))
    ]_vars

\* C27: an adversary does not step back to the cell it left by its previous
\* step, unless that cell is its only legal neighbour.
C27_NoReversal ==
  [][ \A k \in 1..4 :
        (DecisionTick(k) /\ came_from[k] # NoMove
           /\ ev'.col.ghosts[k].position = came_from[k])
          => \A j \in LegalNeighbours(ghosts[k].position) :
               Step(ghosts[k].position, directions[j]) = came_from[k] ]_vars

\* C28: on a decision tick a VULNERABLE adversary steps by the step rule
\* toward the corner farthest from the player; the step is determined by
\* that corner.
C28_VulnerableFleesToFarCorner ==
  [][ \A k \in 1..4 :
        (DecisionTick(k) /\ ghosts[k].is_vulnerable /\ ev'.col.ghosts[k].is_vulnerable)
          => ev'.col.ghosts[k].position =
               StepRule(ghosts[k].position,
                        get_scatter_target([Self EXCEPT !.pacman.position = ev'.col.position],
                                           k, TRUE)) ]_vars

\* A step toward `target` as every move() makes it: to the neighbour the
\* ghost may enter (maze[r][c] == 0) that is nearest to the target in
\* Manhattan distance, the first such in the order up, down, left, right;
\* no step when there is none
PathNeighbours(p) == { j \in 1..4 : GhostCellOk(Step(p, directions[j])) }
StepToward(p, target) ==
  IF PathNeighbours(p) = {} THEN p
  ELSE LET best == CHOOSE j \in PathNeighbours(p) :
                     /\ \A m \in PathNeighbours(p) :
                          Manhattan(Step(p, directions[j]), target)
                            <= Manhattan(Step(p, directions[m]), target)
                     /\ \A m \in PathNeighbours(p) :
                          m < j => Manhattan(Step(p, directions[j]), target)
                                     < Manhattan(Step(p, directions[m]), target)
       IN Step(p, directions[best])

\* Cells offset from the player by Pinky's target ("4 celdas adelante")
PINKY_OFFSET == 4

\* The player's cell offset by PINKY_OFFSET cells along `facing`
AheadOfPlayer(cell, facing) ==
  << cell[1] + PINKY_OFFSET * direction_map(facing)[1],
     cell[2] + PINKY_OFFSET * direction_map(facing)[2] >>

C30_InkyStepsTowardItsTarget ==
  [][ (DecisionTick(3) /\ InChase(3) /\ ~ev'.died /\ ~ev'.level_up) =>
        ev'.col.ghosts[3].position =
          StepRule(ghosts[3].position,
                   IF Manhattan(ghosts[3].position, ev'.col.position) < 8
                   THEN ev'.col.position ELSE corners[4]) ]_vars

\* ------------------------------------------------------------------- Clyde
\* Clyde's Manhattan threshold in _get_ghost_target ("if distance > 8")
CLYDE_THRESHOLD == 8

\* C31: on a decision tick in CHASE, Clyde steps by the step rule toward the
\* player's cell when its Manhattan distance to the player is above 8, and
\* otherwise toward the point obtained by reflecting the player's position
\* through its own position, clamped to the grid.
C31_ClydeChasesFarFleesNear ==
  [][ (DecisionTick(4) /\ InChase(4) /\ ~ev'.died /\ ~ev'.level_up) =>
        LET own == ghosts[4].position
            player == ev'.col.position
            reflected == << Clamp(0, DEFAULT_ROWS - 1, 2 * own[1] - player[1]),
                            Clamp(0, DEFAULT_COLS - 1, 2 * own[2] - player[2]) >>
        IN ev'.col.ghosts[4].position =
             StepRule(own, IF Manhattan(own, player) > CLYDE_THRESHOLD
                           THEN player ELSE reflected) ]_vars

\* -------------------------------------------------------------- collisions
\* C32: when two or more VULNERABLE ghosts are out of the house and on the
\* player's cell at collision resolution, that update() captures all of them
\* and awards 200 points for each.
C32_AllVulnerableOnCellCaptured ==
  ev.op = "update" =>
    LET on_cell == { k \in DOMAIN ev.col.ghosts : OnPlayerCell(k) }
    IN (Cardinality(on_cell) >= 2 /\ \A k \in on_cell : ev.col.ghosts[k].is_vulnerable)
         => /\ ev.captured = { k - 1 : k \in on_cell }
            /\ \A k \in on_cell : ghosts[k].in_house
            /\ pacman[1].score = ev.col.score + GHOST_POINTS * Cardinality(on_cell)

\* ---------------------------------------------------------------- releases
\* C33: one update() takes at most one ghost out of the housed state, and the
\* one it takes is the first housed ghost in release order; this holds in the
\* updates that follow a life-loss reset as well.
C33_OneReleasePerUpdate ==
  [][ ticks' = ticks + 1 =>
        /\ Cardinality(ev'.released) <= 1
        /\ \A i \in ev'.released : i = ghosts_released ]_vars

\* ------------------------------------------------------------------ tunnel
\* Direction d, tried from cell p, points off the grid along the tunnel row
OffGridAlongTunnel(p, d) ==
  \/ p = TUNNEL_LEFT /\ d = "LEFT"
  \/ p = TUNNEL_RIGHT /\ d = "RIGHT"

\* The endpoint opposite to tunnel endpoint p
OppositeEndpoint(p) == IF p = TUNNEL_LEFT THEN TUNNEL_RIGHT ELSE TUNNEL_LEFT

\* C34: on a move tick, when the direction tried (the queued direction, or
\* the facing when no direction is queued) points off the grid along the
\* tunnel row from a tunnel endpoint, the player re-appears on the opposite
\* endpoint; off the tunnel row a step that would leave the grid is rejected
\* (the player stays in the grid).
C34_TunnelForEveryMoveAttempt ==
  [][ (ticks' = ticks + 1 /\ ev'.move_tick /\ ~ev'.died /\ ~ev'.level_up) =>
        LET pm    == pacman[1]
            tried == IF pm.next_direction # None THEN pm.next_direction
                     ELSE pm.direction
        IN /\ OffGridAlongTunnel(pm.position, tried)
                => pacman'[1].position = OppositeEndpoint(pm.position)
           /\ is_valid_position(pacman'[1].position[1], pacman'[1].position[2])
    ]_vars

\* ----------------------------------------------------------- vulnerability
\* C35: a vulnerable ghost that an update() neither captures nor resets (no
\* life loss, no level change) is still vulnerable after that update() if the
\* shared vulnerability window is still active after it: the ghost's own
\* countdown does not end its vulnerability before the shared window expires.
C35_VulnerableWhileWindowActive ==
  [][ \A k \in DOMAIN ghosts :
        ( /\ ticks' = ticks + 1
          /\ ghosts[k].is_vulnerable
          /\ (k - 1) \notin ev'.captured
          /\ ~ev'.died /\ ~ev'.level_up
          /\ power_pellet_active' )
        => ghosts'[k].is_vulnerable ]_vars

\* --------------------------------------------------------------- game over
\* C36: in GAME_OVER the player's lives are 0, and the update() that sets
\* GAME_OVER leaves the score and the level as they were at the fatal
\* collision (it neither advances the level nor builds a new player, also
\* when it ate the last item); in PLAYING the lives are between 1 and 3.
C36_GameOverKeepsFinalRecord ==
  [][ /\ (ticks' = ticks + 1 /\ game_state' = "GAME_OVER") =>
           /\ ~ev'.level_up
           /\ level' = level
           /\ pacman'[1].score = ev'.col.score
      /\ game_state' = "GAME_OVER" => pacman'[1].lives = 0
      /\ game_state' = "PLAYING" => pacman'[1].lives \in 1..3 ]_vars

\* ----------------------------------------------------------------- ranking
\* C37: for a ranking of 10 entries and any score s, is_high_score(s) called
\* before add_score(s, level, name) is true exactly when that add_score
\* returns True, and add_score returns True exactly when the entry it added
\* is itself among the 10 entries kept.
C37_HighScoreAgreesWithAddScore ==
  [][ \A score \in ScoreValues, name \in Names :
        (Len(scores) = RANKING_SIZE /\ AddScore(score, 1, name)) =>
          /\ is_high_score(scores, score) <=> score_ev'.ret
          /\ score_ev'.ret <=> score_ev'.retained ]_vars

\* ------------------------------------------------------------- ghost cells
\* C38: in every reachable state each ghost, housed or not, is on an
\* in-bounds cell that is legal for ghost traversal (PATH, ghost house or
\* ghost door, never a wall).
C38_GhostsOnLegalCells ==
  \A k \in DOMAIN ghosts :
    can_ghost_move_to(ghosts[k].position[1], ghosts[k].position[2])

\* ------------------------------------------------------------------- items
\* The in-bounds PATH cells of the maze (get_walkable_positions as an
\* enumerated set)
WalkableCells == { q : q \in get_walkable_positions }

\* The two item sets share no cell and hold in-bounds PATH cells only
ItemSetsWellFormed(food, power) ==
  /\ \A p \in power : p \notin food /\ p \in WalkableCells
  /\ food \subseteq WalkableCells

\* C39: in every reachable state the pellet set and the power-pellet set are
\* disjoint and contain only in-bounds PATH cells; one update() takes at most
\* one item from them and the player's move awards 10 points for a dot, 50
\* for a power pellet and nothing otherwise, never both.
C39_ItemSetsDisjointOnPath ==
  [][ /\ ItemSetsWellFormed(food_positions, power_pellet_positions)
      /\ ItemSetsWellFormed(food_positions', power_pellet_positions')
      /\ (ticks' = ticks + 1) =>
           LET gain == ev'.col.score - pacman[1].score
               here == ev'.col.position
           IN /\ ev'.ate = "dot" =>
                   /\ gain = DOT_POINTS
                   /\ here \in food_positions /\ here \notin power_pellet_positions
              /\ ev'.ate = "power" =>
                   /\ gain = POWER_PELLET_POINTS
                   /\ here \in power_pellet_positions /\ here \notin food_positions
              /\ ev'.ate = "none" => gain = 0
              /\ ~ev'.level_up =>
                   /\ food_positions' =
                        IF ev'.ate = "dot" THEN food_positions \ {here}
                        ELSE food_positions
                   /\ power_pellet_positions' =
                        IF ev'.ate = "power" THEN power_pellet_positions \ {here}
                        ELSE power_pellet_positions ]_vars

\* the player has just eaten a power pellet: its cell is in neither set any
\* more and the score is the one its move left
C39_Witness ==
  /\ ev.op = "update" /\ ev.ate = "power" /\ ~ev.level_up /\ ~ev.died
  /\ pacman[1].position \in POWER_PELLET_POSITIONS
  /\ pacman[1].position \notin food_positions \cup power_pellet_positions
  /\ pacman[1].score = ev.col.score
  /\ food_positions # {}

\* ---------------------------------------------------------------- life loss
\* GameCore.update up to its call of _check_ghost_collisions: the states the
\* collision step of this update() can start from
BeforeCollisions ==
  ghosts_step(update_ghost_release(update_pacman_movement(
    power_pellet_step([Self EXCEPT !.ev = NoEv("update")]))))

====
